---- MODULE Spec2Model ----
(***************************************************************************)
(* Model of the reconstruction backend of epiplar.io:                      *)
(*   - DepthCompletion.complete          (services/depth_completion.py)    *)
(*   - align_point_clouds_icp            (services/2dseg.py)               *)
(*   - DepthService point-cloud build, multi-LOD export, estimate_depth    *)
(*                                       (services/depth_service.py)       *)
(*   - the job table and process_video_task (api/routes.py)                *)
(* Depth values, coordinates and sizes are exact integers; the places      *)
(* where the code narrows a value (float32, uint16) are modelled by the    *)
(* narrowing they perform.                                                 *)
(***************************************************************************)
EXTENDS Integers, Sequences, FiniteSets, TLC

(* ---------------------------------------------------------------------- *)
(* Bounds of the model                                                     *)
(* ---------------------------------------------------------------------- *)
MaxH == 2
MaxW == 3
MaxPixels == 3

(* ---------------------------------------------------------------------- *)
(* Numbers                                                                 *)
(* ---------------------------------------------------------------------- *)
\* A non-finite depth (np.inf): the code only ever tests it with np.isfinite.
PosInf == 2147483647

IsFinite(z) == z # PosInf

Abs(x) == IF x < 0 THEN -x ELSE x

Pow2_24 == 16777216

\* numpy's cast of a value to float32 (round to nearest, ties to even), for the
\* integers of the model: exact up to 2^24, a multiple of 2 up to 2^25.
ToFloat32(x) ==
    IF x = PosInf \/ Abs(x) <= Pow2_24 THEN x
    ELSE IF x % 2 = 0 THEN x
    ELSE IF ((x - 1) \div 2) % 2 = 0 THEN x - 1 ELSE x + 1

\* A float64 value that float32 cannot hold.
Wide == Pow2_24 + 1

\* floor(x * m / r) for 0 <= x <= r, by Horner's scheme on the bits of m, so
\* that no intermediate value leaves the integer range: <<quotient, remainder>>.
RECURSIVE MulDivQR(_, _, _)
MulDivQR(x, m, r) ==
    IF m = 0 THEN <<0, 0>>
    ELSE LET h == MulDivQR(x, m \div 2, r)
             t == 2 * h[2] + (m % 2) * x
         IN <<2 * h[1] + t \div r, t % r>>

MulDiv(x, m, r) == MulDivQR(x, m, r)[1]

SetMax(S) == CHOOSE m \in S : \A x \in S : x <= m
SetMin(S) == CHOOSE m \in S : \A x \in S : m <= x

(* ---------------------------------------------------------------------- *)
(* State                                                                   *)
(* ---------------------------------------------------------------------- *)
VARIABLES
    dc_in,      \* the arguments of complete(): the depth map, its dtype, the
                \* optional confidence map and the threshold
    completer,  \* the DepthCompletion object: extrapolate, blur_type
    dc_out,     \* what complete() returned, [returned |-> FALSE] before the call
    dc_again,   \* what complete() returned when called on dc_out's map
    icp_in,     \* the arguments of align_point_clouds_icp, and whether open3d imports
    icp_out,    \* what it returned, [returned |-> FALSE] before the call
    build_in,   \* the prediction handed to _build_point_cloud_from_prediction
    build_out,  \* what it returned or raised, [returned |-> FALSE] before the call
    merge_in,   \* the detections handed to merge_3d_detections
    merge_out,  \* what it returned, [returned |-> FALSE] before the call
    seg,        \* 2dseg.process from its step 5: its locals and its position
    settings,   \* config.settings: the feature flags and lod_configs
    jobs,       \* routes.jobs, the in-memory job table, by job id
    fs,         \* the job directories under settings.temp_dir, by job id
    task,       \* the locals of process_video_task / estimate_depth, by job id
    progress_log \* the progress values the current run of a job has emitted, by job id

dcVars == <<dc_in, completer, dc_out, dc_again>>
icpVars == <<icp_in, icp_out>>
buildVars == <<build_in, build_out>>
segVars == <<merge_in, merge_out, seg>>
jobVars == <<settings, jobs, fs, task, progress_log>>
vars == <<dc_in, completer, dc_out, dc_again, icp_in, icp_out, build_in, build_out,
          merge_in, merge_out, seg, settings, jobs, fs, task, progress_log>>

NotReturned == [returned |-> FALSE]

(* ---------------------------------------------------------------------- *)
(* DepthCompletion (depth_completion.py)                                   *)
(* ---------------------------------------------------------------------- *)
Pixels(h, w) == (0 .. h - 1) \X (0 .. w - 1)

Shapes == {s \in (1 .. MaxH) \X (1 .. MaxW) : s[1] * s[2] <= MaxPixels}

U16Max == 65535

\* cv2.getStructuringElement(MORPH_ELLIPSE, (k, k)) as a predicate on the offset
\* (dy, dx) from the anchor: row dy holds the columns |dx| <= round(r*sqrt(1 - dy^2/r^2)).
EllipseKernel(k, dy, dx) ==
    LET r == k \div 2 IN
    /\ Abs(dy) <= r
    /\ \/ dx = 0
       \/ (2 * Abs(dx) - 1) * (2 * Abs(dx) - 1) <= 4 * (r * r - dy * dy)

\* cv2.getStructuringElement(MORPH_RECT, (kw, kh))
RectKernel(kw, kh, dy, dx) == Abs(dx) <= kw \div 2 /\ Abs(dy) <= kh \div 2

small_kernel_size == 5
large_kernel_size == 31

KernelSmall(dy, dx) == EllipseKernel(small_kernel_size, dy, dx)
KernelLarge(dy, dx) == EllipseKernel(large_kernel_size, dy, dx)
KernelExtrapolate(dy, dx) == RectKernel(3, large_kernel_size, dy, dx)

\* The window of the smoothing filter: bilateralFilter(d=9) uses the disc of
\* radius 4, GaussianBlur((5,5)) the square of radius 2.
BlurWindow(blur_type, dy, dx) ==
    IF blur_type = "bilateral"
    THEN dy * dy + dx * dx <= 16
    ELSE Abs(dy) <= 2 /\ Abs(dx) <= 2

\* The structuring element or filter window named k, as a predicate on the offset
InKernel(k, dy, dx) ==
    IF k = "small" THEN KernelSmall(dy, dx)
    ELSE IF k = "large" THEN KernelLarge(dy, dx)
    ELSE IF k = "extrapolate" THEN KernelExtrapolate(dy, dx)
    ELSE BlurWindow(k, dy, dx)

Neighbours(px, p, k) == {q \in px : InKernel(k, q[1] - p[1], q[2] - p[2])}

\* cv2.dilate / cv2.erode: the border is ignored (constant border of the
\* neutral value), so the extremum is taken over the pixels inside the image.
Dilate(img, k) ==
    [p \in DOMAIN img |-> SetMax({img[q] : q \in Neighbours(DOMAIN img, p, k)})]

Erode(img, k) ==
    [p \in DOMAIN img |-> SetMin({img[q] : q \in Neighbours(DOMAIN img, p, k)})]

\* cv2.morphologyEx(MORPH_CLOSE): dilation followed by erosion
MorphClose(img, k) == Erode(Dilate(img, k), k)

\* Both filters output a weighted mean, with positive weights, of the pixels
\* of the window (reflected borders only repeat pixels of the image): a value
\* between the least and the greatest of them.  The set of possible outputs.
Smooth(img, blur_type) ==
    LET lo == Erode(img, blur_type)
        hi == Dilate(img, blur_type)
        all == SetMin({lo[p] : p \in DOMAIN img}) .. SetMax({hi[p] : p \in DOMAIN img})
    IN {b \in [DOMAIN img -> all] : \A p \in DOMAIN img : lo[p] <= b[p] /\ b[p] <= hi[p]}

\* The placeholder held for confidence_map = None
NoConf(h, w) == [p \in Pixels(h, w) |-> 0]

\* valid_mask (lines 85-88)
ValidMask(a) ==
    [p \in DOMAIN a.depth |->
        /\ a.has_conf => a.conf[p] >= a.thr
        /\ a.depth[p] > 0
        /\ IsFinite(a.depth[p])]

\* The array complete() returns on the main path (lines 129-140), given the
\* outcome of the smoothing stage: float32, the filled map with the originally
\* valid values stored back into it.
CompleteMain(a, c, valid, smoothed) ==
    LET depth_valid == {a.depth[p] : p \in {q \in DOMAIN valid : valid[q]}}
        depth_min == SetMin(depth_valid)
        depth_range == SetMax(depth_valid) - depth_min
        depth_filled == IF c.extrapolate THEN Dilate(smoothed, "extrapolate")
                        ELSE smoothed
        filled == [p \in DOMAIN valid |->
                      ToFloat32(MulDiv(depth_filled[p], depth_range, U16Max) + depth_min)]
    IN [p \in DOMAIN valid |-> IF valid[p] THEN ToFloat32(a.depth[p]) ELSE filled[p]]

\* depth_u16 after stages 1 and 2 (lines 105-114)
Closed(a, valid) ==
    LET depth_valid == {a.depth[p] : p \in {q \in DOMAIN valid : valid[q]}}
        depth_min == SetMin(depth_valid)
        depth_range == SetMax(depth_valid) - depth_min
        depth_u16 == [p \in DOMAIN valid |->
                         IF valid[p]
                         THEN MulDiv(a.depth[p] - depth_min, U16Max, depth_range)
                         ELSE 0]
    IN MorphClose(Dilate(depth_u16, "small"), "large")

\* A faulty variant: without a valid pixel the call returns a map of zeros.
CompleteResultsZeroed(a, c) ==
    LET valid == ValidMask(a)
        depth_valid == {a.depth[p] : p \in {q \in DOMAIN valid : valid[q]}}
    IN IF depth_valid = {} THEN {[dtype |-> a.dtype, map |-> [p \in DOMAIN a.depth |-> 0]]}
       ELSE IF SetMax(depth_valid) - SetMin(depth_valid) <= 0
            THEN {[dtype |-> a.dtype, map |-> a.depth]}
       ELSE {[dtype |-> "float32", map |-> CompleteMain(a, c, valid, s)] :
                s \in Smooth(Closed(a, valid), c.blur_type)}

\* The results complete() can return: [dtype, map].
CompleteResults(a, c) ==
    LET valid == ValidMask(a)
        depth_valid == {a.depth[p] : p \in {q \in DOMAIN valid : valid[q]}}
    IN IF depth_valid = {} THEN {[dtype |-> a.dtype, map |-> a.depth]}
       ELSE IF SetMax(depth_valid) - SetMin(depth_valid) <= 0
            THEN {[dtype |-> a.dtype, map |-> a.depth]}
       ELSE {[dtype |-> "float32", map |-> CompleteMain(a, c, valid, s)] :
                s \in Smooth(Closed(a, valid), c.blur_type)}

(* ---------------------------------------------------------------------- *)
(* align_point_clouds_icp (2dseg.py)                                       *)
(* ---------------------------------------------------------------------- *)
\* A cloud is held as what align_point_clouds_icp reads of it before the
\* registration: its length and its bounding box (min and max per axis).
\* Lengths are in units of 1e-6, the epsilon the code adds to the source size.

Vec3Sub(a, b) == <<a[1] - b[1], a[2] - b[2], a[3] - b[3]>>

Eye3 == <<<<1, 0, 0>>, <<0, 1, 0>>, <<0, 0, 1>>>>
Zeros3 == <<0, 0, 0>>

\* A scale is a fraction num/den, or NaN (np.median of an empty array).
NaN == [num |-> 0, den |-> 0]
IsNaN(q) == q.den = 0
Frac(n, d) == [num |-> n, den |-> d]
FracLess(a, b) == a.num * b.den < b.num * a.den
FracLeq(a, b) == a.num * b.den <= b.num * a.den

\* The fractions of a set in ascending order (np.median sorts its input).
RECURSIVE SortFracs(_)
SortFracs(S) ==
    IF S = {} THEN <<>>
    ELSE LET m == CHOOSE x \in S : \A y \in S : FracLeq(x[2], y[2])
         IN <<m[2]>> \o SortFracs(S \ {m})

\* np.median of the kept ratios; `kept` is a set of <<axis, ratio>>.
Median(kept) ==
    LET srt == SortFracs(kept)
        n == Len(srt)
    IN IF n = 0 THEN NaN
       ELSE IF n % 2 = 1 THEN srt[(n + 1) \div 2]
       ELSE LET a == srt[n \div 2]
                b == srt[n \div 2 + 1]
            IN Frac(a.num * b.den + b.num * a.den, 2 * a.den * b.den)

\* np.clip(scale, 0.5, 2.0): NaN compares false with both limits and is kept.
Clip(q) ==
    IF IsNaN(q) THEN q
    ELSE IF FracLess(q, Frac(1, 2)) THEN Frac(1, 2)
    ELSE IF FracLess(Frac(2, 1), q) THEN Frac(2, 1)
    ELSE q

min_icp_points == 10

\* Lines 732-741: scale_factors = target_size / (source_size + 1e-6), keep
\* those above 0.1, take the median, clip.  Coordinates are in units of 1e-6,
\* which makes the code's 1e-6 the integer 1.
EstimateScale(src, tgt) ==
    LET source_size == Vec3Sub(src.hi, src.lo)
        target_size == Vec3Sub(tgt.hi, tgt.lo)
        scale_factors == [i \in 1 .. 3 |-> Frac(target_size[i], source_size[i] + 1)]
        kept == {<<i, scale_factors[i]>> : i \in {j \in 1 .. 3 : FracLess(Frac(1, 10), scale_factors[j])}}
    IN Clip(Median(kept))

\* What registration_icp may report: fitness in percent, and a transformation.
Rz90 == <<<<0, -1, 0>>, <<1, 0, 0>>, <<0, 0, 1>>>>
IcpOutcomes ==
    {[R |-> Eye3, t |-> Zeros3, fitness |-> 0],
     [R |-> Eye3, t |-> <<1, 0, 0>>, fitness |-> 5],
     [R |-> Rz90, t |-> <<1, 2, 0>>, fitness |-> 100]}

\* A faulty variant: the early return is taken only when both clouds are small.
AlignResultBothSmall(a, reg) ==
    IF ~a.have_open3d
    THEN [R |-> Eye3, t |-> Zeros3, fitness |-> 0, scale |-> Frac(1, 1), ran |-> <<>>]
    ELSE IF a.source.n < min_icp_points /\ a.target.n < min_icp_points
    THEN [R |-> Eye3, t |-> Zeros3, fitness |-> 0, scale |-> Frac(1, 1), ran |-> <<>>]
    ELSE [R |-> reg.R, t |-> reg.t, fitness |-> reg.fitness,
          scale |-> EstimateScale(a.source, a.target), ran |-> <<"scale", "icp">>]

\* The value align_point_clouds_icp returns (lines 712-786), given the
\* outcome of the library's registration; `ran` lists the stages executed.
AlignResult(a, reg) ==
    IF ~a.have_open3d
    THEN [R |-> Eye3, t |-> Zeros3, fitness |-> 0, scale |-> Frac(1, 1), ran |-> <<>>]
    ELSE IF a.source.n < min_icp_points \/ a.target.n < min_icp_points
    THEN [R |-> Eye3, t |-> Zeros3, fitness |-> 0, scale |-> Frac(1, 1), ran |-> <<>>]
    ELSE [R |-> reg.R, t |-> reg.t, fitness |-> reg.fitness,
          scale |-> EstimateScale(a.source, a.target), ran |-> <<"scale", "icp">>]


(* ---------------------------------------------------------------------- *)
(* DepthService._build_point_cloud_from_prediction (depth_service.py)      *)
(* ---------------------------------------------------------------------- *)
\* A prediction of the oracle is a record
\*   [depth_attr : "ok" | "none" | "absent",  has_intrinsics, has_extrinsics,
\*    has_images, has_conf : BOOLEAN,  N, H, W,  depth, conf, intrinsics,
\*    extrinsics, processed_images : sequences over the N views]
\* with matrices as sequences of rows and maps as functions of <<v, u>>.

Dot4(a, b) == a[1] * b[1] + a[2] * b[2] + a[3] * b[3] + a[4] * b[4]

MatVec4(M, x) == [i \in 1 .. 4 |-> Dot4(M[i], x)]

ExtShapeOk(ext) == Len(ext) \in {3, 4} /\ \A i \in 1 .. Len(ext) : Len(ext[i]) = 4

\* _as_homogeneous44, for an extrinsic of an accepted shape
AsHomogeneous44(ext) == IF Len(ext) = 4 THEN ext ELSE Append(ext, <<0, 0, 0, 1>>)

\* np.linalg.inv of a world-to-camera matrix [R t; 0 1] with R orthonormal:
\* [R^T  -R^T t; 0 1].
Inv44(M) ==
    LET Rt == [i \in 1 .. 3 |-> [j \in 1 .. 3 |-> M[j][i]]]
        ti == [i \in 1 .. 3 |-> -(Rt[i][1] * M[1][4] + Rt[i][2] * M[2][4] + Rt[i][3] * M[3][4])]
    IN [i \in 1 .. 4 |->
           IF i = 4 THEN <<0, 0, 0, 1>>
           ELSE <<Rt[i][1], Rt[i][2], Rt[i][3], ti[i]>>]

\* The pixel of flat index k (row-major: u runs fastest)
PixelAt(k, W) == <<k \div W, k % W>>

\* z of view i, as float32, by flat pixel index (line 83)
ViewDepth(pred, i, k) == ToFloat32(pred.depth[i][PixelAt(k, pred.W)])

\* valid = (z > 0) & isfinite(z), as the ascending sequence of flat indices (line 84)
ValidPixels(pred, i) ==
    LET Keep(k) == ViewDepth(pred, i, k) > 0 /\ IsFinite(ViewDepth(pred, i, k))
    IN SelectSeq([n \in 1 .. pred.H * pred.W |-> n - 1], Keep)

\* A faulty variant: the world point without the Y/Z flip.
WorldPointNoFlip(pred, i, k) ==
    LET K == pred.intrinsics[i]
        c2w == Inv44(AsHomogeneous44(pred.extrinsics[i]))
        u == PixelAt(k, pred.W)[2]
        v == PixelAt(k, pred.W)[1]
        z == ViewDepth(pred, i, k)
        x == ((u - K[1][3]) * z) \div K[1][1]
        y == ((v - K[2][3]) * z) \div K[2][2]
        w == MatVec4(c2w, <<x, y, z, 1>>)
    IN <<w[1], w[2], w[3]>>

\* Lines 90-107: unprojection, camera-to-world, Y/Z flip.  The inputs of the
\* model make the two divisions exact.
WorldPoint(pred, i, k) ==
    LET K == pred.intrinsics[i]
        c2w == Inv44(AsHomogeneous44(pred.extrinsics[i]))
        u == PixelAt(k, pred.W)[2]
        v == PixelAt(k, pred.W)[1]
        z == ViewDepth(pred, i, k)
        x == ((u - K[1][3]) * z) \div K[1][1]
        y == ((v - K[2][3]) * z) \div K[2][2]
        w == MatVec4(c2w, <<x, y, z, 1>>)
    IN <<w[1], -w[2], -w[3]>>

\* all_points / all_colors after the views 1 .. n (lines 76-114); a view
\* without a valid pixel contributes nothing.
RECURSIVE Accumulate(_, _)
Accumulate(pred, n) ==
    IF n = 0 THEN [points |-> <<>>, colors |-> <<>>]
    ELSE LET acc == Accumulate(pred, n - 1)
             valid == ValidPixels(pred, n)
         IN [points |-> acc.points \o [m \in 1 .. Len(valid) |-> WorldPoint(pred, n, valid[m])],
             colors |-> acc.colors \o
                 [m \in 1 .. Len(valid) |-> pred.processed_images[n][PixelAt(valid[m], pred.W)]]]

NoCloud == [points |-> <<>>, colors |-> <<>>, merged |-> <<>>]

\* A faulty variant: missing processed images are not refused.
BuildPointCloudNoColorCheck(pred) ==
    IF pred.depth_attr # "ok" \/ ~pred.has_intrinsics \/ ~pred.has_extrinsics
    THEN [ok |-> FALSE, error |-> "missing depth/intrinsics/extrinsics", pcd |-> NoCloud]
    ELSE IF \E i \in 1 .. pred.N : ~ExtShapeOk(pred.extrinsics[i])
    THEN [ok |-> FALSE, error |-> "extrinsic must be (4,4) or (3,4)", pcd |-> NoCloud]
    ELSE LET acc == Accumulate(pred, pred.N)
         IN IF Len(acc.points) = 0
            THEN [ok |-> FALSE, error |-> "No valid points found in prediction", pcd |-> NoCloud]
            ELSE [ok |-> TRUE, error |-> "",
                  pcd |-> [points |-> acc.points, colors |-> acc.colors,
                           merged |-> [m \in 1 .. Len(acc.points) |-> 1]]]

\* The outcome of _build_point_cloud_from_prediction (lines 58-122): the
\* cloud, or the error raised.  `merged` counts the source points behind each
\* point (1 for a built cloud; a voxel's point is the mean of several).
BuildPointCloud(pred) ==
    IF pred.depth_attr # "ok" \/ ~pred.has_intrinsics \/ ~pred.has_extrinsics
    THEN [ok |-> FALSE, error |-> "missing depth/intrinsics/extrinsics", pcd |-> NoCloud]
    ELSE IF ~pred.has_images
    THEN [ok |-> FALSE, error |-> "missing processed_images", pcd |-> NoCloud]
    ELSE IF \E i \in 1 .. pred.N : ~ExtShapeOk(pred.extrinsics[i])
    THEN [ok |-> FALSE, error |-> "extrinsic must be (4,4) or (3,4)", pcd |-> NoCloud]
    ELSE LET acc == Accumulate(pred, pred.N)
         IN IF Len(acc.points) = 0
            THEN [ok |-> FALSE, error |-> "No valid points found in prediction", pcd |-> NoCloud]
            ELSE [ok |-> TRUE, error |-> "",
                  pcd |-> [points |-> acc.points, colors |-> acc.colors,
                           merged |-> [m \in 1 .. Len(acc.points) |-> 1]]]

(* ---------------------------------------------------------------------- *)
(* Voxel down-sampling of a tier (depth_service.py, lines 202-215)         *)
(* ---------------------------------------------------------------------- *)
SeqRange(sq) == {sq[i] : i \in 1 .. Len(sq)}

AxisMin(pts, a) == SetMin({pts[i][a] : i \in 1 .. Len(pts)})
AxisMax(pts, a) == SetMax({pts[i][a] : i \in 1 .. Len(pts)})

\* bbox.volume() of get_axis_aligned_bounding_box()
BBoxVolume(pts) ==
    (AxisMax(pts, 1) - AxisMin(pts, 1)) * (AxisMax(pts, 2) - AxisMin(pts, 2))
        * (AxisMax(pts, 3) - AxisMin(pts, 3))

\* Open3D's voxel index of a coordinate at distance d from the minimum bound:
\* floor(d / voxel_size + 1/2), the grid starting half a voxel below the
\* bound.  With voxel_size = (volume / target_points)^(1/3) this is the largest
\* k with (2k - 1)^3 * volume <= 8 * d^3 * target_points.
RECURSIVE VoxelIndexFrom(_, _, _, _)
VoxelIndexFrom(k, d, volume, target_points) ==
    IF (2 * k + 1) * (2 * k + 1) * (2 * k + 1) * volume <= 8 * d * d * d * target_points
    THEN VoxelIndexFrom(k + 1, d, volume, target_points)
    ELSE k

VoxelOf(pts, p, volume, target_points) ==
    [a \in 1 .. 3 |-> VoxelIndexFrom(0, p[a] - AxisMin(pts, a), volume, target_points)]

\* full_pcd.voxel_down_sample(voxel_size): one point per occupied voxel, the
\* mean of the voxel's points (held as their sum and their number), in the
\* order in which the voxels are first met.
RECURSIVE VoxelDownSample(_, _, _, _)
VoxelDownSample(pcd, n, volume, target_points) ==
    IF n = 0 THEN [cloud |-> NoCloud, voxels |-> <<>>]
    ELSE LET prev == VoxelDownSample(pcd, n - 1, volume, target_points)
             vx == VoxelOf(pcd.points, pcd.points[n], volume, target_points)
             Add(a, b) == <<a[1] + b[1], a[2] + b[2], a[3] + b[3]>>
         IN IF \E m \in 1 .. Len(prev.voxels) : prev.voxels[m] = vx
            THEN LET m == CHOOSE m \in 1 .. Len(prev.voxels) : prev.voxels[m] = vx
                 IN [cloud |->
                        [points |-> [prev.cloud.points EXCEPT ![m] = Add(@, pcd.points[n])],
                         colors |-> [prev.cloud.colors EXCEPT ![m] = @ + pcd.colors[n]],
                         merged |-> [prev.cloud.merged EXCEPT ![m] = @ + 1]],
                     voxels |-> prev.voxels]
            ELSE [cloud |->
                        [points |-> Append(prev.cloud.points, pcd.points[n]),
                         colors |-> Append(prev.cloud.colors, pcd.colors[n]),
                         merged |-> Append(prev.cloud.merged, 1)],
                  voxels |-> Append(prev.voxels, vx)]

\* A faulty variant: a cloud of exactly target_points points is down-sampled too.
TierCloudAtBudget(full_pcd, target_points) ==
    IF Len(full_pcd.points) >= target_points
    THEN LET volume == BBoxVolume(full_pcd.points)
         IN IF volume > 0
            THEN VoxelDownSample(full_pcd, Len(full_pcd.points), volume, target_points).cloud
            ELSE full_pcd
    ELSE full_pcd

\* pcd of a tier (lines 202-212)
TierCloud(full_pcd, target_points) ==
    IF Len(full_pcd.points) > target_points
    THEN LET volume == BBoxVolume(full_pcd.points)
         IN IF volume > 0
            THEN VoxelDownSample(full_pcd, Len(full_pcd.points), volume, target_points).cloud
            ELSE full_pcd
    ELSE full_pcd

(* ---------------------------------------------------------------------- *)
(* Job directories, assets, job table                                      *)
(* ---------------------------------------------------------------------- *)
\* The job identifiers in use, and the jobs of the table.
OneJob == {"j1"}
TwoJobs == {"j1", "j2"}
JobIds == DOMAIN jobs

\* A faulty variant: every job works in the same directory.
JobDirShared(job_id) == "j1"

\* settings.temp_dir / job_id: the job directory, named by the identifier
JobDir(job_id) == job_id

LodNames == {"preview", "medium", "full"}

\* The names a configured tier list may use, in the order the lists below use
\* them: lod_configs is a setting, and a tier is exported as scene_<name>.glb
\* whatever its name.
TierNameSeq == <<"preview", "medium", "full", "high", "ultra">>
TierNames == {TierNameSeq[k] : k \in 1 .. Len(TierNameSeq)}

\* The files a job directory can hold: the upload, the oracle's own export
\* (scene.glb), scene_<lod>.glb, scene_<lod>_draco.glb, room.glb.
FileIds ==
    {<<"input", "">>, <<"scene", "">>, <<"room", "">>}
        \cup {<<"scene", n>> : n \in TierNames} \cup {<<"scene_draco", n>> : n \in TierNames}

IsGlb(f) == f[1] # "input"

\* The content of a file: who wrote it and how many points it holds.
NoFile == [by |-> "none", points |-> 0]
Exists(dir, f) == dir.exists /\ dir.files[f] # NoFile

EmptyDir == [exists |-> TRUE, files |-> [f \in FileIds |-> NoFile]]
UploadedDir == [EmptyDir EXCEPT !.files[<<"input", "">>] = [by |-> "upload", points |-> 0]]
RemovedDir == [exists |-> FALSE, files |-> [f \in FileIds |-> NoFile]]

\* stat().st_size of a file: a header and a fixed number of bytes per point.
FileSize(content) == 100 + 16 * content.points

\* ModelAsset; NoAsset stands for None, point_count -1 for an unset count.
NoAsset == [filename |-> <<"", "">>, lod_level |-> "", point_count |-> -1, file_size_bytes |-> -1]

\* LODAssetCollection; is_none marks the local lod_assets being None.
NoLods == [is_none |-> TRUE, preview |-> NoAsset, medium |-> NoAsset, full |-> NoAsset]
EmptyLods == [NoLods EXCEPT !.is_none = FALSE]

\* An entry of the job table (routes.py, lines 37-43); progress -1 is None.
NewJob == [status |-> "uploaded", progress |-> -1, error |-> "",
           has_result |-> FALSE, model_asset |-> NoAsset, lod_assets |-> NoLods]

\* A prediction with no field set, before the oracle has run.
NoPrediction ==
    [depth_attr |-> "absent", has_intrinsics |-> FALSE, has_extrinsics |-> FALSE,
     has_images |-> FALSE, has_conf |-> FALSE, N |-> 0, H |-> 0, W |-> 0,
     depth |-> <<>>, conf |-> <<>>, intrinsics |-> <<>>, extrinsics |-> <<>>,
     processed_images |-> <<>>]

\* The TSDF fallback not called: the mesh it extracted, its outcome and the
\* stages it ran, once it has been.
NoTsdf == [called |-> FALSE, mesh |-> [vertices |-> 0, triangles |-> 0], ok |-> FALSE,
           error |-> "", ran |-> <<>>]

\* The locals of one run of process_video_task, and `tried`, the tiers whose
\* export the run has attempted.  `world` is what the run
\* will meet: the frames of the video, whether the model loads, what the
\* oracle returns or raises and whether it writes its own scene.glb.
NewTask(world) ==
    [pc |-> "idle", world |-> world, prediction |-> NoPrediction,
     full_pcd |-> NoCloud, pcd |-> NoCloud, idx |-> 0, tried |-> {}, tsdf |-> NoTsdf,
     lod_assets |-> NoLods, model_asset |-> NoAsset, released |-> 0]

(* ---- process_video_task / estimate_depth, step by step ---- *)

\* update_progress (routes.py, lines 81-82) for the values emitted by a
\* step, in order: the job's progress is the last one.
Emit(j, emitted) ==
    /\ progress_log' = [progress_log EXCEPT ![j] = @ \o emitted]
    /\ jobs' = [jobs EXCEPT ![j].progress =
                   IF Len(emitted) = 0 THEN @ ELSE emitted[Len(emitted)]]

\* The except clause of process_video_task (lines 116-119), ending the task.
JobFailed(j, emitted, msg, t) ==
    /\ progress_log' = [progress_log EXCEPT ![j] = @ \o emitted]
    /\ jobs' = [jobs EXCEPT ![j].status = "failed", ![j].error = msg,
                            ![j].progress =
                                IF Len(emitted) = 0 THEN @ ELSE emitted[Len(emitted)]]
    /\ task' = [task EXCEPT ![j] = [t EXCEPT !.pc = "done"]]

\* The task goes on with the locals t.
JobContinues(j, emitted, t) ==
    /\ Emit(j, emitted)
    /\ task' = [task EXCEPT ![j] = t]

\* A faulty variant: the cache is not released.
ReleasedNever(t) == t

\* torch.cuda.empty_cache() in the finally clause of estimate_depth (lines 661-664)
Released(t) == [t EXCEPT !.released = @ + 1]

\* A faulty variant: a job is started whatever its status.
StartProcessingAnyStatus(j) ==
    /\ jobs' = [jobs EXCEPT ![j].status = "processing"]
    /\ task' = [task EXCEPT ![j] = [NewTask(task[j].world) EXCEPT !.pc = "start"]]
    /\ progress_log' = [progress_log EXCEPT ![j] = <<>>]
    /\ UNCHANGED <<settings, fs>>
    /\ UNCHANGED <<dcVars, icpVars, buildVars, segVars>>

\* POST /process/{job_id} (routes.py, lines 48-72)
StartProcessing(j) ==
    /\ jobs[j].status \in {"uploaded", "failed"}
    /\ jobs' = [jobs EXCEPT ![j].status = "processing"]
    /\ task' = [task EXCEPT ![j] = [NewTask(task[j].world) EXCEPT !.pc = "start"]]
    /\ progress_log' = [progress_log EXCEPT ![j] = <<>>]
    /\ UNCHANGED <<settings, fs>>
    /\ UNCHANGED <<dcVars, icpVars, buildVars, segVars>>

\* Frame extraction (routes.py, lines 84-97)
ExtractFrames(j) ==
    /\ task[j].pc = "start"
    /\ IF task[j].world.frames = 0
       THEN JobFailed(j, <<5>>, "No frames extracted from video", task[j])
       ELSE JobContinues(j, <<5>>, [task[j] EXCEPT !.pc = "estimate"])
    /\ UNCHANGED <<settings, fs>>
    /\ UNCHANGED <<dcVars, icpVars, buildVars, segVars>>

\* estimate_depth up to the inference (depth_service.py, lines 410-429);
\* initialize() raises outside the try block when the package is missing.
EstimateBegin(j) ==
    /\ task[j].pc = "estimate"
    /\ IF ~task[j].world.model_loads
       THEN JobFailed(j, <<>>, "DA3 package not available", task[j])
       ELSE JobContinues(j, <<10, 20>>, [task[j] EXCEPT !.pc = "inference"])
    /\ UNCHANGED <<settings, fs>>
    /\ UNCHANGED <<dcVars, icpVars, buildVars, segVars>>

\* The oracle call and the extraction of its results (lines 431-471).  The
\* read of prediction.depth raises when the attribute is absent.
Inference(j) ==
    /\ task[j].pc = "inference"
    /\ LET w == task[j].world
           dir == [(IF fs[JobDir(j)].exists THEN fs[JobDir(j)] ELSE EmptyDir) EXCEPT
                      !.files[<<"scene", "">>] =
                          IF ~w.raises /\ w.native THEN [by |-> "native", points |-> 0] ELSE @]
       IN /\ fs' = [fs EXCEPT ![JobDir(j)] = dir]
          /\ IF w.raises
             THEN JobFailed(j, <<>>, "inference failed", Released(task[j]))
             ELSE IF w.prediction.depth_attr = "absent"
             THEN JobFailed(j, <<80>>, "object has no attribute depth",
                            Released([task[j] EXCEPT !.prediction = w.prediction]))
             ELSE JobContinues(j, <<80>>, [task[j] EXCEPT !.prediction = w.prediction,
                                                          !.pc = "completion"])
    /\ UNCHANGED settings
    /\ UNCHANGED <<dcVars, icpVars, buildVars, segVars>>

\* The arguments complete() gets for view i of a prediction
CompleteArgs(pred, i) ==
    [h |-> pred.H, w |-> pred.W, dtype |-> "float32", depth |-> pred.depth[i],
     has_conf |-> pred.has_conf,
     conf |-> IF pred.has_conf THEN pred.conf[i] ELSE NoConf(pred.H, pred.W),
     thr |-> settings.completion_conf_threshold]

\* complete_batch over the views 1 .. n: the possible arrays of filled maps
RECURSIVE CompleteBatch(_, _, _)
CompleteBatch(pred, c, n) ==
    IF n = 0 THEN {<<>>}
    ELSE {Append(rest, r.map) :
              rest \in CompleteBatch(pred, c, n - 1),
              r \in CompleteResults(CompleteArgs(pred, n), c)}

\* Depth completion inside estimate_depth (lines 473-509)
DepthCompletionStep(j) ==
    /\ task[j].pc = "completion"
    /\ LET pred == task[j].prediction
           c == [extrapolate |-> settings.completion_extrapolate,
                 blur_type |-> settings.completion_blur_type]
       IN IF ~settings.enable_depth_completion
          THEN JobContinues(j, <<>>, [task[j] EXCEPT !.pc = "export"])
          ELSE IF pred.depth_attr # "ok"
          THEN JobContinues(j, <<81>>, [task[j] EXCEPT !.pc = "export"])
          ELSE \E enhanced \in CompleteBatch(pred, c, pred.N) :
                  JobContinues(j, <<81, 82>>, [task[j] EXCEPT !.prediction.depth = enhanced,
                                                               !.pc = "export"])
    /\ UNCHANGED <<settings, fs>>
    /\ UNCHANGED <<dcVars, icpVars, buildVars, segVars>>

\* The LOD export has raised: the handler of lines 526-528, then line 531.
LodFailed(t) == [t EXCEPT !.lod_assets = NoLods, !.pc = "single"]

\* Lines 511-515 and the head of _export_multi_lod_glb (lines 173-183)
ExportBegin(j) ==
    /\ task[j].pc = "export"
    /\ IF settings.enable_lod
       THEN /\ fs' = [fs EXCEPT ![JobDir(j)] = IF @.exists THEN @ ELSE EmptyDir]
            /\ JobContinues(j, <<82>>, [task[j] EXCEPT !.lod_assets = EmptyLods,
                                                       !.pc = "lod_build"])
       ELSE /\ UNCHANGED fs
            /\ JobContinues(j, <<>>, [task[j] EXCEPT !.pc = "single"])
    /\ UNCHANGED settings
    /\ UNCHANGED <<dcVars, icpVars, buildVars, segVars>>

\* The end of the tier loop: return lod_assets, model_asset = lod_assets.full
\* (lines 258, 519-525)
LodReturned(t) == [t EXCEPT !.model_asset = t.lod_assets.full, !.pc = "single"]

\* The build of the full cloud in a worker thread (lines 185-189)
LodBuild(j) ==
    /\ task[j].pc = "lod_build"
    /\ LET built == BuildPointCloud(task[j].prediction)
       IN IF ~built.ok
          THEN JobContinues(j, <<>>, LodFailed(task[j]))
          ELSE IF Len(settings.lod_configs) = 0
          THEN JobContinues(j, <<>>, LodReturned([task[j] EXCEPT !.full_pcd = built.pcd]))
          ELSE JobContinues(j, <<>>, [task[j] EXCEPT !.full_pcd = built.pcd, !.idx = 1,
                                                     !.pc = "lod_tier"])
    /\ UNCHANGED <<settings, fs>>
    /\ UNCHANGED <<dcVars, icpVars, buildVars, segVars>>

\* One tier up to its export (lines 191-220): progress, down-sampling, and
\* _export_pointcloud_to_glb, which writes scene_<lod>.glb or raises.
LodExportTier(j) ==
    /\ task[j].pc = "lod_tier"
    /\ LET lod_cfg == settings.lod_configs[task[j].idx]
           pcd == TierCloud(task[j].full_pcd, lod_cfg.max_points)
           lod_path == <<"scene", lod_cfg.name>>
           emitted == <<85 + (task[j].idx - 1) * 4>>
       IN \E export_ok \in BOOLEAN :
             IF export_ok /\ fs[JobDir(j)].exists
             THEN /\ fs' = [fs EXCEPT ![JobDir(j)].files[lod_path] =
                                [by |-> "export", points |-> Len(pcd.points)]]
                  /\ JobContinues(j, emitted, [task[j] EXCEPT !.pcd = pcd, !.pc = "lod_compress",
                                                           !.tried = @ \cup {lod_cfg.name}])
             ELSE /\ UNCHANGED fs
                  /\ JobContinues(j, emitted, LodFailed([task[j] EXCEPT !.pcd = pcd,
                                                           !.tried = @ \cup {lod_cfg.name}]))
    /\ UNCHANGED settings
    /\ UNCHANGED <<dcVars, icpVars, buildVars, segVars>>

\* A faulty variant: a failed compression leaves its partial output in place.
CompressGlbNoFallback(input, compress_ok) ==
    IF compress_ok THEN [by |-> "reexport", points |-> input.points]
    ELSE [by |-> "partial", points |-> 0]

\* _compress_glb_with_draco (lines 139-162): the re-export of the loaded
\* file, or on any failure a copy of the input.
CompressGlb(input, compress_ok) ==
    IF compress_ok THEN [by |-> "reexport", points |-> input.points] ELSE input

\* A faulty variant: the asset records the tier's budget, not the cloud's size.
TierAssetRequested(lod_cfg, final_path, pcd, dir) ==
    [filename |-> final_path, lod_level |-> lod_cfg.name,
     point_count |-> lod_cfg.max_points,
     file_size_bytes |-> FileSize(dir.files[final_path])]

\* The ModelAsset of a tier (lines 239-246): actual_points of line 214 and
\* the size of the final file.
TierAsset(lod_cfg, final_path, pcd, dir) ==
    [filename |-> final_path, lod_level |-> lod_cfg.name,
     point_count |-> Len(pcd.points),
     file_size_bytes |-> FileSize(dir.files[final_path])]

\* The rest of a tier (lines 222-256): compression, removal of the
\* uncompressed file, the tier's ModelAsset; then the next tier or the return.
LodFinishTier(j) ==
    /\ task[j].pc = "lod_compress"
    /\ \E compress_ok \in BOOLEAN :
        LET lod_name == settings.lod_configs[task[j].idx].name
            lod_path == <<"scene", lod_name>>
            compressed_path == <<"scene_draco", lod_name>>
            draco == settings.enable_draco /\ Exists(fs[JobDir(j)], lod_path)
            written == IF draco
                       THEN [fs[JobDir(j)] EXCEPT !.files[compressed_path] =
                                             CompressGlb(fs[JobDir(j)].files[lod_path], compress_ok)]
                       ELSE fs[JobDir(j)]
            replaced == draco /\ Exists(written, compressed_path)
            dir == IF replaced THEN [written EXCEPT !.files[lod_path] = NoFile] ELSE written
            final_path == IF replaced THEN compressed_path ELSE lod_path
            asset == TierAsset(settings.lod_configs[task[j].idx], final_path, task[j].pcd, dir)
            lods == IF ~Exists(dir, final_path) THEN task[j].lod_assets
                    ELSE IF lod_name = "preview" THEN [task[j].lod_assets EXCEPT !.preview = asset]
                    ELSE IF lod_name = "medium" THEN [task[j].lod_assets EXCEPT !.medium = asset]
                    ELSE IF lod_name = "full" THEN [task[j].lod_assets EXCEPT !.full = asset]
                    ELSE task[j].lod_assets
            t == [task[j] EXCEPT !.lod_assets = lods]
        IN /\ (~draco => compress_ok)
           /\ fs' = [fs EXCEPT ![JobDir(j)] = dir]
           /\ IF task[j].idx < Len(settings.lod_configs)
              THEN JobContinues(j, <<>>, [t EXCEPT !.idx = @ + 1, !.pc = "lod_tier"])
              ELSE JobContinues(j, <<>>, LodReturned(t))
    /\ UNCHANGED settings
    /\ UNCHANGED <<dcVars, icpVars, buildVars, segVars>>

\* The asset of a file found in the job directory (lines 581-585)
FoundAsset(f) == [NoAsset EXCEPT !.filename = f]

\* A faulty variant: only scene.glb is looked for, not any other *.glb.
SingleExportSceneOnly(j) ==
    /\ task[j].pc = "single"
    /\ IF task[j].model_asset # NoAsset
       THEN JobContinues(j, <<>>, [task[j] EXCEPT !.pc = "serialize"])
       ELSE IF Exists(fs[JobDir(j)], <<"scene", "">>)
       THEN JobContinues(j, <<85, 92>>, [task[j] EXCEPT !.model_asset = FoundAsset(<<"scene", "">>),
                                                        !.pc = "serialize"])
       ELSE JobContinues(j, <<85>>, [task[j] EXCEPT !.pc = "tsdf"])
    /\ UNCHANGED <<settings, fs>>
    /\ UNCHANGED <<dcVars, icpVars, buildVars, segVars>>

\* The single-export fallback (lines 530-595): skipped when the LOD export
\* produced the full tier; else scene.glb, else any *.glb of the job
\* directory, else the TSDF fallback.
SingleExport(j) ==
    /\ task[j].pc = "single"
    /\ IF task[j].model_asset # NoAsset
       THEN JobContinues(j, <<>>, [task[j] EXCEPT !.pc = "serialize"])
       ELSE IF Exists(fs[JobDir(j)], <<"scene", "">>)
       THEN JobContinues(j, <<85, 92>>, [task[j] EXCEPT !.model_asset = FoundAsset(<<"scene", "">>),
                                                        !.pc = "serialize"])
       ELSE IF \E f \in FileIds : IsGlb(f) /\ Exists(fs[JobDir(j)], f)
       THEN \E f \in {g \in FileIds : IsGlb(g) /\ Exists(fs[JobDir(j)], g)} :
               JobContinues(j, <<85, 92>>, [task[j] EXCEPT !.model_asset = FoundAsset(f),
                                                           !.pc = "serialize"])
       ELSE JobContinues(j, <<85>>, [task[j] EXCEPT !.pc = "tsdf"])
    /\ UNCHANGED <<settings, fs>>
    /\ UNCHANGED <<dcVars, icpVars, buildVars, segVars>>

\* The meshes volume.extract_triangle_mesh() may return, by their numbers of
\* vertices and triangles, and the ways the write may go: Open3D's writer,
\* trimesh after Open3D has raised, or both raising.
target_tris == 1000000
ExtractedMeshes == [vertices : {0, 3}, triangles : {0, 1, target_tris + 1}]
MeshWrites == {"open3d", "trimesh", "raises"}

\* A faulty variant: only the vertices of the extracted mesh are checked.
TsdfExportVerticesOnly(pred, mesh, write) ==
    IF pred.depth_attr # "ok" \/ ~pred.has_intrinsics \/ ~pred.has_extrinsics
    THEN [ok |-> FALSE, error |-> "missing depth/intrinsics/extrinsics", ran |-> <<>>, file |-> NoFile]
    ELSE IF ~pred.has_images
    THEN [ok |-> FALSE, error |-> "missing processed_images", ran |-> <<>>, file |-> NoFile]
    ELSE IF \E i \in 1 .. pred.N : ~ExtShapeOk(pred.extrinsics[i])
    THEN [ok |-> FALSE, error |-> "extrinsic must be (4,4) or (3,4)", ran |-> <<"integrate">>,
          file |-> NoFile]
    ELSE IF mesh.vertices = 0
    THEN [ok |-> FALSE, error |-> "TSDF reconstruction produced an empty mesh",
          ran |-> <<"integrate", "extract", "check">>, file |-> NoFile]
    ELSE LET decimated == mesh.triangles > target_tris
             stages == <<"integrate", "extract", "check", "cleanup">>
                           \o (IF decimated THEN <<"decimate">> ELSE <<>>) \o <<"write">>
         IN IF write = "raises"
            THEN [ok |-> FALSE, error |-> "export failed", ran |-> stages, file |-> NoFile]
            ELSE [ok |-> TRUE, error |-> "", ran |-> stages,
                  file |-> [by |-> "tsdf", points |-> mesh.vertices]]

\* _export_tsdf_mesh_glb_sync (lines 260-375): whether it returned, the error
\* raised, the stages it ran in order, and the file it left at out_path.
TsdfExport(pred, mesh, write) ==
    IF pred.depth_attr # "ok" \/ ~pred.has_intrinsics \/ ~pred.has_extrinsics
    THEN [ok |-> FALSE, error |-> "missing depth/intrinsics/extrinsics", ran |-> <<>>, file |-> NoFile]
    ELSE IF ~pred.has_images
    THEN [ok |-> FALSE, error |-> "missing processed_images", ran |-> <<>>, file |-> NoFile]
    ELSE IF \E i \in 1 .. pred.N : ~ExtShapeOk(pred.extrinsics[i])
    THEN [ok |-> FALSE, error |-> "extrinsic must be (4,4) or (3,4)", ran |-> <<"integrate">>,
          file |-> NoFile]
    ELSE IF mesh.vertices = 0 \/ mesh.triangles = 0
    THEN [ok |-> FALSE, error |-> "TSDF reconstruction produced an empty mesh",
          ran |-> <<"integrate", "extract", "check">>, file |-> NoFile]
    ELSE LET decimated == mesh.triangles > target_tris
             stages == <<"integrate", "extract", "check", "cleanup">>
                           \o (IF decimated THEN <<"decimate">> ELSE <<>>) \o <<"write">>
         IN IF write = "raises"
            THEN [ok |-> FALSE, error |-> "export failed", ran |-> stages, file |-> NoFile]
            ELSE [ok |-> TRUE, error |-> "", ran |-> stages,
                  file |-> [by |-> "tsdf", points |-> mesh.vertices]]

\* _export_room_mesh_asset (lines 377-391) under the handler of lines
\* 596-605: room.glb and its asset, or the error logged and no asset.
TsdfFallback(j) ==
    /\ task[j].pc = "tsdf"
    /\ \E mesh \in ExtractedMeshes : \E write \in MeshWrites :
          LET out == TsdfExport(task[j].prediction, mesh, write)
              t == [task[j] EXCEPT !.tsdf = [called |-> TRUE, mesh |-> mesh, ok |-> out.ok,
                                             error |-> out.error, ran |-> out.ran]]
          IN IF out.ok
             THEN /\ fs' = [fs EXCEPT ![JobDir(j)] =
                              [(IF @.exists THEN @ ELSE EmptyDir) EXCEPT
                                  !.files[<<"room", "">>] = out.file]]
                  /\ JobContinues(j, <<92>>, [t EXCEPT !.model_asset = FoundAsset(<<"room", "">>),
                                                      !.pc = "serialize"])
             ELSE /\ UNCHANGED fs
                  /\ JobContinues(j, <<>>, [t EXCEPT !.pc = "serialize"])
    /\ UNCHANGED settings
    /\ UNCHANGED <<dcVars, icpVars, buildVars, segVars>>

\* cleanup_job (file_utils.py, lines 36-40)
CleanupJob(dir) == IF dir.exists THEN RemovedDir ELSE dir

\* The serialisation of the frames and the return (lines 607-664), then the
\* completion of the job (routes.py, lines 106-114).  Indexing depth_maps
\* raises when prediction.depth was None.
Finish(j) ==
    /\ task[j].pc = "serialize"
    /\ IF task[j].prediction.depth_attr # "ok"
       THEN /\ JobFailed(j, <<>>, "NoneType object is not subscriptable", Released(task[j]))
            /\ UNCHANGED fs
       ELSE /\ progress_log' = [progress_log EXCEPT ![j] = Append(@, 100)]
            /\ jobs' = [jobs EXCEPT ![j].progress = 100, ![j].status = "completed",
                                    ![j].has_result = TRUE,
                                    ![j].model_asset = task[j].model_asset,
                                    ![j].lod_assets = task[j].lod_assets]
            /\ task' = [task EXCEPT ![j] = [Released(task[j]) EXCEPT !.pc = "done"]]
            /\ fs' = [fs EXCEPT ![JobDir(j)] = IF settings.auto_cleanup_after_completion
                                       THEN CleanupJob(@) ELSE @]
    /\ UNCHANGED settings
    /\ UNCHANGED <<dcVars, icpVars, buildVars, segVars>>

\* The end of a run whose automatic cleanup raises (routes.py, lines
\* 106-119): status and result are set, then the except clause marks the job
\* failed, all before the task yields.
FinishCleanupFails(j) ==
    /\ j \in JobIds
    /\ task[j].pc = "serialize"
    /\ task[j].prediction.depth_attr = "ok"
    /\ settings.auto_cleanup_after_completion /\ fs[JobDir(j)].exists
    /\ progress_log' = [progress_log EXCEPT ![j] = Append(@, 100)]
    /\ jobs' = [jobs EXCEPT ![j].progress = 100, ![j].status = "failed",
                            ![j].error = "rmtree failed", ![j].has_result = TRUE,
                            ![j].model_asset = task[j].model_asset,
                            ![j].lod_assets = task[j].lod_assets]
    /\ task' = [task EXCEPT ![j] = [Released(task[j]) EXCEPT !.pc = "done"]]
    /\ UNCHANGED <<settings, fs>>
    /\ UNCHANGED <<dcVars, icpVars, buildVars, segVars>>

\* Where a request can be served while the task of a job exists: before the
\* task has run, while it awaits a worker thread (the build of the cloud, an
\* export or compression, the mesh fallback), and when it is over.
SuspensionPoints == {"idle", "start", "lod_build", "lod_compress", "tsdf", "done"}

\* DELETE /job/{job_id} (routes.py, lines 187-199): 404 for an unknown job,
\* else the directory is removed and the entry deleted.
CancelJob(j) ==
    /\ j \in JobIds
    /\ task[j].pc \in SuspensionPoints
    /\ fs' = [fs EXCEPT ![JobDir(j)] = CleanupJob(@)]
    /\ jobs' = [k \in JobIds \ {j} |-> jobs[k]]
    /\ UNCHANGED <<settings, task, progress_log>>
    /\ UNCHANGED <<dcVars, icpVars, buildVars, segVars>>

\* The task of a cancelled job, resumed: the worker thread it awaited ends,
\* and the next progress update raises KeyError (routes.py, line 82), which
\* the except clause of line 118 raises again: the task is over.  The mesh
\* fallback's thread creates the directory before it writes (line 355).
OrphanStep(j) ==
    /\ j \notin JobIds
    /\ task[j].pc \in {"start", "lod_build", "lod_compress", "tsdf"}
    /\ IF task[j].pc = "tsdf"
       THEN \E mesh \in ExtractedMeshes : \E write \in MeshWrites :
               LET out == TsdfExport(task[j].prediction, mesh, write)
                   wrote == out.ran # <<>> /\ out.ran[Len(out.ran)] = "write"
                   t == [task[j] EXCEPT !.tsdf = [called |-> TRUE, mesh |-> mesh,
                                                  ok |-> out.ok, error |-> out.error,
                                                  ran |-> out.ran]]
               IN /\ fs' = [fs EXCEPT ![JobDir(j)] =
                               IF wrote
                               THEN [(IF @.exists THEN @ ELSE EmptyDir) EXCEPT
                                        !.files[<<"room", "">>] = out.file]
                               ELSE @]
                  /\ task' = [task EXCEPT ![j] = [Released(t) EXCEPT !.pc = "crashed"]]
       ELSE /\ UNCHANGED fs
            /\ task' = [task EXCEPT ![j] =
                           [(IF task[j].pc = "start" THEN task[j] ELSE Released(task[j]))
                               EXCEPT !.pc = "crashed"]]
    /\ UNCHANGED <<settings, jobs, progress_log>>
    /\ UNCHANGED <<dcVars, icpVars, buildVars, segVars>>

(* ---------------------------------------------------------------------- *)
(* Inputs and specifications                                               *)
(* ---------------------------------------------------------------------- *)
MaxBudget == 4

\* settings.lod_configs: the three tiers, smallest first
LodConfigs ==
    {<<[name |-> "preview", max_points |-> b[1]], [name |-> "medium", max_points |-> b[2]],
       [name |-> "full", max_points |-> b[3]]>> :
        b \in {c \in (1 .. MaxBudget) \X (1 .. MaxBudget) \X (1 .. MaxBudget) :
                  c[1] < c[2] /\ c[2] < c[3]}}

\* settings.lod_configs set from the environment: a list of any length, here
\* the first n of five tiers, the k-th with a budget of k points.
TierLists ==
    {[k \in 1 .. n |-> [name |-> TierNameSeq[k], max_points |-> k]] :
        n \in 0 .. Len(TierNameSeq)}

SettingsSet ==
    [enable_lod : BOOLEAN, enable_draco : BOOLEAN, enable_depth_completion : BOOLEAN,
     completion_conf_threshold : {3}, completion_extrapolate : {TRUE},
     completion_blur_type : {"bilateral"}, auto_cleanup_after_completion : BOOLEAN,
     lod_configs : LodConfigs]

Identity34 == <<<<1, 0, 0, 0>>, <<0, 1, 0, 0>>, <<0, 0, 1, 0>>>>
UnitK == <<<<1, 0, 0>>, <<0, 1, 0>>, <<0, 0, 1>>>>

\* The processed image of a view: a grey level per pixel, all distinct.
TestImage(i, h, w) == [p \in Pixels(h, w) |-> 50 * i + 10 * p[1] + p[2]]

\* A one-view prediction with every field set, of depth map d (h x w).
OneView(h, w, d) ==
    [depth_attr |-> "ok", has_intrinsics |-> TRUE, has_extrinsics |-> TRUE,
     has_images |-> TRUE, has_conf |-> FALSE, N |-> 1, H |-> h, W |-> w,
     depth |-> <<d>>, conf |-> <<NoConf(h, w)>>, intrinsics |-> <<UnitK>>,
     extrinsics |-> <<Identity34>>, processed_images |-> <<TestImage(1, h, w)>>]

Map22(a, b, c, d) ==
    [p \in Pixels(2, 2) |-> IF p = <<0, 0>> THEN a ELSE IF p = <<0, 1>> THEN b
                            ELSE IF p = <<1, 0>> THEN c ELSE d]

\* What the oracle may return to a job: full predictions with a dense map,
\* a map with holes, a map without any valid pixel, a low-confidence pixel,
\* and predictions lacking one field.
JobPredictions ==
    LET full == OneView(2, 2, Map22(1, 1, 3, 1))
    IN {full, OneView(2, 2, Map22(1, 0, 0, 3)), OneView(2, 2, Map22(0, 0, 0, 0)),
        [full EXCEPT !.has_conf = TRUE, !.conf = <<Map22(9, 9, 9, 1)>>],
        [full EXCEPT !.depth_attr = "none"], [full EXCEPT !.depth_attr = "absent"],
        [full EXCEPT !.has_intrinsics = FALSE], [full EXCEPT !.has_extrinsics = FALSE],
        [full EXCEPT !.has_images = FALSE]}

Worlds ==
    {[frames |-> 1, model_loads |-> TRUE, raises |-> FALSE, native |-> n, prediction |-> pr] :
        n \in BOOLEAN, pr \in JobPredictions}
    \cup {[frames |-> 0, model_loads |-> TRUE, raises |-> FALSE, native |-> FALSE,
           prediction |-> NoPrediction],
          [frames |-> 1, model_loads |-> FALSE, raises |-> FALSE, native |-> FALSE,
           prediction |-> NoPrediction],
          [frames |-> 1, model_loads |-> TRUE, raises |-> TRUE, native |-> FALSE,
           prediction |-> NoPrediction]}

\* The depth values a map of each dtype is drawn from: a hole (0), a
\* non-finite value, and two distinct positive depths.
DepthValues(dtype) == IF dtype = "float32" THEN {0, PosInf, 1, 3} ELSE {0, PosInf, 1, Wide}

\* Confidence and threshold, in tenths.
ConfValues == {2, 3}
Thresholds == {3, 4}

DCInputs ==
    UNION {
        UNION {
            {[h |-> s[1], w |-> s[2], dtype |-> dt, depth |-> d,
              has_conf |-> FALSE, conf |-> NoConf(s[1], s[2]), thr |-> 3] :
                 d \in [Pixels(s[1], s[2]) -> DepthValues(dt)]}
            \cup
            {[h |-> s[1], w |-> s[2], dtype |-> dt, depth |-> d,
              has_conf |-> TRUE, conf |-> cf, thr |-> t] :
                 d \in [Pixels(s[1], s[2]) -> DepthValues(dt)],
                 cf \in [Pixels(s[1], s[2]) -> ConfValues],
                 t \in Thresholds}
            : dt \in {"float32", "float64"}}
        : s \in Shapes}

Completers == [extrapolate : BOOLEAN, blur_type : {"bilateral", "gaussian"}]

\* The extents of the two clouds along an axis, in units of 1e-6: flat, and
\* such that no ratio falls on the floor 0.1 itself.
SourceSizes == {0, 9, 29}
TargetSizes == {0, 2, 10, 40}

IcpInputs ==
    {[have_open3d |-> o,
      source |-> [n |-> ns, lo |-> <<-3, 1, 2>>,
                  hi |-> <<-3 + ss[1], 1 + ss[2], 2 + ss[3]>>],
      target |-> [n |-> nt, lo |-> <<4, 0, -5>>,
                  hi |-> <<4 + ts[1], ts[2], -5 + ts[3]>>]] :
        o \in BOOLEAN,
        ns \in {min_icp_points - 1, min_icp_points},
        nt \in {min_icp_points - 5, min_icp_points},
        ss \in SourceSizes \X SourceSizes \X SourceSizes,
        ts \in TargetSizes \X TargetSizes \X TargetSizes}


\* The scales of the sanity check, within the clamp range [0.5, 2.0].
ScaleFactors == {Frac(1, 2), Frac(1, 1), Frac(3, 2), Frac(2, 1)}

\* q * v for a fraction q and a vector v whose product is integral.
ScaleVec(q, v) == [a \in 1 .. 3 |-> (q.num * v[a]) \div q.den]

\* A source cloud and the same cloud scaled by s about the origin as target:
\* extents of 0, 0.0002 and 0.002 scene units along each axis.
ScaledExtents == {0, 200, 2000}
ScaledPairs ==
    {[have_open3d |-> TRUE,
      source |-> [n |-> n, lo |-> <<-1000, 2000, 400>>,
                  hi |-> <<-1000 + e[1], 2000 + e[2], 400 + e[3]>>],
      target |-> [n |-> n, lo |-> ScaleVec(sc, <<-1000, 2000, 400>>),
                  hi |-> ScaleVec(sc, <<-1000 + e[1], 2000 + e[2], 400 + e[3]>>)]] :
        n \in {min_icp_points, min_icp_points + 2},
        e \in ScaledExtents \X ScaledExtents \X ScaledExtents,
        sc \in ScaleFactors}

\* The predictions handed to the point-cloud build: one view of 2 x 2 or two
\* views of 1 x 2, depths with holes and non-finite values, two intrinsics,
\* extrinsics of both accepted shapes and of a refused one; and, on one fixed
\* scene, every combination of missing fields.  The intrinsics divide the
\* depths exactly.
BuildDepths == {0, PosInf, 2, 4}
HalfK == <<<<2, 0, 1>>, <<0, 2, 1>>, <<0, 0, 1>>>>
Identity44 == Append(Identity34, <<0, 0, 0, 1>>)
Rigid44 == <<<<0, -1, 0, 1>>, <<1, 0, 0, 2>>, <<0, 0, 1, 3>>, <<0, 0, 0, 1>>>>
Rigid34 == <<<<1, 0, 0, -2>>, <<0, 0, -1, 0>>, <<0, 1, 0, 5>>>>
BadExt == <<<<1, 0, 0>>, <<0, 1, 0>>, <<0, 0, 1>>>>

\* One 2 x 2 view of depth 1 everywhere, identity intrinsics and extrinsics.
UnitView22 == OneView(2, 2, [p \in Pixels(2, 2) |-> 1])

BuildInputs ==
    {[OneView(2, 2, d) EXCEPT !.intrinsics = <<k>>, !.extrinsics = <<e>>] :
        d \in [Pixels(2, 2) -> BuildDepths], k \in {UnitK, HalfK},
        e \in {Identity34, Identity44, Rigid44, Rigid34, BadExt}}
    \cup
    {[OneView(1, 2, d1) EXCEPT !.N = 2, !.depth = <<d1, d2>>,
                               !.conf = <<NoConf(1, 2), NoConf(1, 2)>>,
                               !.intrinsics = <<k, UnitK>>, !.extrinsics = <<e, Rigid44>>,
                               !.processed_images = <<TestImage(1, 1, 2), TestImage(2, 1, 2)>>] :
        d1 \in [Pixels(1, 2) -> BuildDepths], d2 \in [Pixels(1, 2) -> BuildDepths],
        k \in {UnitK, HalfK}, e \in {Identity34, Identity44, Rigid44, Rigid34, BadExt}}
    \cup
    {[OneView(2, 2, Map22(2, 2, 4, 0)) EXCEPT !.depth_attr = da, !.has_intrinsics = hi,
                                             !.has_extrinsics = he, !.has_images = hm] :
        da \in {"ok", "none", "absent"}, hi \in BOOLEAN, he \in BOOLEAN, hm \in BOOLEAN}
    \cup {UnitView22}

\* The clouds of the LOD export: every 2 x 2 view over a hole and two depths.
LodPredictions == {OneView(2, 2, d) : d \in [Pixels(2, 2) -> {0, 1, 3}]}

DefaultSettings ==
    [enable_lod |-> TRUE, enable_draco |-> TRUE, enable_depth_completion |-> TRUE,
     completion_conf_threshold |-> 3, completion_extrapolate |-> TRUE,
     completion_blur_type |-> "bilateral", auto_cleanup_after_completion |-> FALSE,
     lod_configs |-> CHOOSE c \in LodConfigs : c[3].max_points = 3]

IdleWorld == [frames |-> 0, model_loads |-> TRUE, raises |-> FALSE, native |-> FALSE,
              prediction |-> NoPrediction]

(* ---------------------------------------------------------------------- *)
(* Furniture localisation and merging (2dseg.py)                           *)
(* ---------------------------------------------------------------------- *)
\* Lengths are in units of 0.05 scene units, confidences in percent and colour
\* channels in hundredths.  A point array is a sequence of groups
\* [xyz, count]: count rows of the array that hold the same coordinates.

MARKER_COLORS ==
    [chair |-> <<100, 20, 20>>, sofa |-> <<20, 80, 20>>, table |-> <<100, 60, 0>>,
     bed |-> <<30, 50, 90>>, tv |-> <<20, 20, 20>>, plant |-> <<10, 60, 10>>,
     laptop |-> <<30, 30, 30>>, refrigerator |-> <<80, 80, 80>>,
     vase |-> <<95, 50, 80>>, clock |-> <<80, 60, 20>>, default |-> <<50, 50, 50>>]

\* len(points)
NumPoints(points) ==
    LET RECURSIVE upto(_)
        upto(i) == IF i = 0 THEN 0 ELSE upto(i - 1) + points[i].count
    IN upto(Len(points))

\* How many rows of points have a value below v (strict) or up to v on axis a.
RowsBelow(points, a, v, strict) ==
    NumPoints(SelectSeq(points,
        LAMBDA g : IF strict THEN g.xyz[a] < v ELSE g.xyz[a] <= v))

\* The k-th smallest value (from 1) of axis a over the rows of points.
KthSmallest(points, a, k) ==
    CHOOSE v \in {points[i].xyz[a] : i \in 1 .. Len(points)} :
        RowsBelow(points, a, v, TRUE) < k /\ k <= RowsBelow(points, a, v, FALSE)

\* np.median(points, axis=0): per axis the middle row, or the mean of the two
\* middle rows, as a fraction over 2.
MedianPoint(points) ==
    LET n == NumPoints(points)
    IN [a \in 1 .. 3 |->
           Frac(KthSmallest(points, a, (n + 1) \div 2)
                + KthSmallest(points, a, (n + 2) \div 2), 2)]

\* scene_size: the largest extent of the centers over the three axes.
SceneSize(detections) ==
    LET centers == [i \in 1 .. Len(detections) |-> detections[i].center]
    IN SetMax({AxisMax(centers, a) - AxisMin(centers, a) : a \in 1 .. 3})

\* distance_threshold = max(0.5, scene_size * 0.08); 0.5 is 10 units, so it is
\* max(250, 2 * scene_size) / 25 units.
DistanceThreshold(detections) == Frac(SetMax({250, 2 * SceneSize(detections)}), 25)

\* dist < distance_threshold for det against the mean center of cluster, with
\* both sides squared and multiplied by the squared cluster length.
NearCluster(det, cluster, thr) ==
    LET n == Len(cluster)
        RECURSIVE sum_to(_, _)
        sum_to(a, i) == IF i = 0 THEN 0 ELSE sum_to(a, i - 1) + cluster[i].center[a]
        d == [a \in 1 .. 3 |-> n * det.center[a] - sum_to(a, n)]
    IN (d[1] * d[1] + d[2] * d[2] + d[3] * d[3]) * thr.den * thr.den
          < n * n * thr.num * thr.num

ClusterDetectionsApart(dets, thr, n) == [k \in 1 .. n |-> <<dets[k]>>]

\* A faulty variant: a detection near a cluster is dropped, not added to it.
RECURSIVE ClusterDetectionsDropNear(_, _, _)
ClusterDetectionsDropNear(dets, thr, n) ==
    IF n = 0 THEN <<>>
    ELSE LET clusters == ClusterDetectionsDropNear(dets, thr, n - 1)
             near == {k \in 1 .. Len(clusters) : NearCluster(dets[n], clusters[k], thr)}
         IN IF near = {} THEN Append(clusters, <<dets[n]>>) ELSE clusters

\* The clusters after the first n detections of one label: a detection joins
\* the first cluster it is near, or opens a cluster of its own.
RECURSIVE ClusterDetections(_, _, _)
ClusterDetections(dets, thr, n) ==
    IF n = 0 THEN <<>>
    ELSE LET clusters == ClusterDetections(dets, thr, n - 1)
             near == {k \in 1 .. Len(clusters) : NearCluster(dets[n], clusters[k], thr)}
         IN IF near = {} THEN Append(clusters, <<dets[n]>>)
            ELSE [clusters EXCEPT ![SetMin(near)] = Append(@, dets[n])]

\* np.vstack([d.points for d in cluster])
RECURSIVE AllPoints(_, _)
AllPoints(cluster, n) ==
    IF n = 0 THEN <<>> ELSE AllPoints(cluster, n - 1) \o cluster[n].points

\* max(cluster, key=lambda d: d.confidence).confidence
BestConfidence(cluster) == SetMax({cluster[i].confidence : i \in 1 .. Len(cluster)})

ClusterObjectMeanOfCenters(label, cluster) ==
    LET n == Len(cluster)
        RECURSIVE total(_, _)
        total(a, i) == IF i = 0 THEN 0 ELSE total(a, i - 1) + cluster[i].center[a]
    IN [label |-> label,
        center |-> [a \in 1 .. 3 |-> Frac(total(a, n), n)],
        confidence |-> BestConfidence(cluster),
        color |-> IF label \in DOMAIN MARKER_COLORS THEN MARKER_COLORS[label]
                  ELSE MARKER_COLORS["default"],
        points |-> AllPoints(cluster, n)]

\* The Object3D of one cluster.
ClusterObject(label, cluster) ==
    LET all_points == AllPoints(cluster, Len(cluster))
    IN [label |-> label,
        center |-> MedianPoint(all_points),
        confidence |-> BestConfidence(cluster),
        color |-> IF label \in DOMAIN MARKER_COLORS THEN MARKER_COLORS[label]
                  ELSE MARKER_COLORS["default"],
        points |-> all_points]

\* by_label[label]
ByLabel(detections, label) == SelectSeq(detections, LAMBDA d : d.label = label)

\* merge_3d_detections(detections): the objects of each label, the labels in
\* the order of their first detection.
Merge3dDetections(detections) ==
    LET thr == DistanceThreshold(detections)
        RECURSIVE from(_)
        from(i) ==
            IF i > Len(detections) THEN <<>>
            ELSE LET label == detections[i].label
                     dets == ByLabel(detections, label)
                     clusters == ClusterDetections(dets, thr, Len(dets))
                 IN (IF \E j \in 1 .. i - 1 : detections[j].label = label THEN <<>>
                     ELSE [k \in 1 .. Len(clusters) |-> ClusterObject(label, clusters[k])])
                    \o from(i + 1)
    IN IF detections = <<>> THEN <<>> ELSE from(1)

\* Expected heights above the floor per label, (low, high).
FURNITURE_HEIGHT_RANGES ==
    [chair |-> <<6, 24>>, sofa |-> <<6, 20>>, table |-> <<12, 18>>, bed |-> <<6, 16>>,
     tv |-> <<10, 40>>, plant |-> <<0, 30>>, laptop |-> <<14, 20>>,
     refrigerator |-> <<10, 40>>, vase |-> <<14, 24>>, clock |-> <<20, 50>>,
     cup |-> <<14, 20>>, bottle |-> <<14, 20>>, sink |-> <<16, 20>>,
     default |-> <<0, 40>>]

\* floor_y when a cloud has no rows.
NoFloor == [is_none |-> TRUE, num |-> 0, den |-> 1]

\* np.percentile(glb_points[:, 1], 5): linear interpolation between the rows
\* around position 0.05 * (N - 1) of the sorted heights, as a fraction over 20;
\* None for an empty cloud.
FloorY(glb_points) ==
    LET n == NumPoints(glb_points)
        i == (n - 1) \div 20
        r == (n - 1) % 20
        lo == KthSmallest(glb_points, 2, i + 1)
        hi == IF r = 0 THEN lo ELSE KthSmallest(glb_points, 2, i + 2)
    IN IF n = 0 THEN NoFloor
       ELSE [is_none |-> FALSE, num |-> 20 * lo + r * (hi - lo), den |-> 20]

\* glb_points[height_mask]: the rows with min_y <= y <= max_y for the label's
\* height range above floor_y; every row when floor_y is None.
AtHeight(glb_points, floor_y, label) ==
    LET height_range == IF label \in DOMAIN FURNITURE_HEIGHT_RANGES
                        THEN FURNITURE_HEIGHT_RANGES[label]
                        ELSE FURNITURE_HEIGHT_RANGES["default"]
    IN IF floor_y.is_none THEN glb_points
       ELSE SelectSeq(glb_points,
                LAMBDA g : /\ g.xyz[2] * floor_y.den
                                 >= floor_y.num + height_range[1] * floor_y.den
                           /\ g.xyz[2] * floor_y.den
                                 <= floor_y.num + height_range[2] * floor_y.den)

\* DBSCAN(eps=0.5, min_samples).fit(points_xz), as the groups of each cluster
\* in the order of the clusters' labels: a group is a core when the rows within
\* eps of it in the XZ plane, itself included, number min_samples or more; a
\* cluster is what can be reached from its first core through cores; a group
\* within reach of two clusters belongs to the earlier one.
Dbscan(points, min_samples) ==
    LET idx == 1 .. Len(points)
        close(i, j) ==
            LET dx == points[i].xyz[1] - points[j].xyz[1]
                dz == points[i].xyz[3] - points[j].xyz[3]
            IN dx * dx + dz * dz <= 10 * 10
        core(i) ==
            NumPoints([j \in idx |-> IF close(i, j) THEN points[j]
                                     ELSE [points[j] EXCEPT !.count = 0]]) >= min_samples
        RECURSIVE reach(_, _)
        reach(S, n) ==
            IF n = 0 THEN S
            ELSE reach(S \cup {j \in idx : \E i \in S : core(i) /\ close(i, j)}, n - 1)
        RECURSIVE label_from(_, _)
        label_from(i, taken) ==
            IF i > Len(points) THEN <<>>
            ELSE IF core(i) /\ i \notin taken
                 THEN LET members == reach({i}, Len(points)) \ taken
                      IN <<members>> \o label_from(i + 1, taken \cup members)
                 ELSE label_from(i + 1, taken)
    IN label_from(1, {})

\* find_furniture_clusters_in_glb(glb_points, floor_y, label, min_cluster_size):
\* the median of each cluster of the rows at the label's height, no cluster
\* when sklearn is missing or fewer than min_cluster_size rows are that high.
FindFurnitureClusters(glb_points, floor_y, label, min_cluster_size, have_sklearn) ==
    LET points_at_height == AtHeight(glb_points, floor_y, label)
        clusters == Dbscan(points_at_height, min_cluster_size)
    IN IF ~have_sklearn \/ NumPoints(points_at_height) < min_cluster_size THEN <<>>
       ELSE [k \in 1 .. Len(clusters) |->
                MedianPoint(SelectSeq([j \in 1 .. Len(points_at_height) |->
                                IF j \in clusters[k] THEN points_at_height[j]
                                ELSE [points_at_height[j] EXCEPT !.count = 0]],
                            LAMBDA g : g.count > 0))]

\* M @ x for a 3 x 3 matrix, and M.T.
Mat3Vec(M, x) == [i \in 1 .. 3 |-> M[i][1] * x[1] + M[i][2] * x[2] + M[i][3] * x[3]]
Transpose3(M) == [i \in 1 .. 3 |-> [j \in 1 .. 3 |-> M[j][i]]]

\* expected_depth: the median of the finite positive depths in the middle of
\* the detection's box on the depth map, as a fraction over 2, when more than
\* 5 depths are there; None otherwise and without a depth map.
ExpectedDepth(view, x1, y1, x2, y2) ==
    LET dm_x1 == SetMax({0, (x1 * view.dm_w) \div view.W})
        dm_y1 == SetMax({0, (y1 * view.dm_h) \div view.H})
        dm_x2 == SetMin({view.dm_w, (x2 * view.dm_w) \div view.W})
        dm_y2 == SetMin({view.dm_h, (y2 * view.dm_h) \div view.H})
        margin_x == (dm_x2 - dm_x1) \div 4
        margin_y == (dm_y2 - dm_y1) \div 4
        in_region(k) ==
            LET p == PixelAt(k, view.dm_w)
            IN /\ dm_y1 + margin_y <= p[1] /\ p[1] < dm_y2 - margin_y
               /\ dm_x1 + margin_x <= p[2] /\ p[2] < dm_x2 - margin_x
               /\ view.depth_map[p] > 0 /\ IsFinite(view.depth_map[p])
        valid_depths ==
            SelectSeq([k \in 1 .. view.dm_h * view.dm_w |->
                          [xyz |-> <<view.depth_map[PixelAt(k - 1, view.dm_w)], 0, 0>>,
                           count |-> IF in_region(k - 1) THEN 1 ELSE 0]],
                      LAMBDA g : g.count > 0)
    IN IF view.has_depth /\ dm_x2 > dm_x1 /\ dm_y2 > dm_y1 /\ Len(valid_depths) > 5
       THEN [is_none |-> FALSE, num |-> MedianPoint(valid_depths)[1].num, den |-> 2]
       ELSE [is_none |-> TRUE, num |-> 0, den |-> 2]

\* points_cam of one row times the numerator of scale_icp:
\* R_ext @ ((R_icp.T @ p - R_icp.T @ t_icp) / scale_icp) + t_ext.
CamPoint(p, view, icp) ==
    LET R_inv == Transpose3(icp.R)
        scaled == Vec3Sub(Mat3Vec(R_inv, p), Mat3Vec(R_inv, icp.t))
        turned == Mat3Vec(view.R_ext, scaled)
    IN [a \in 1 .. 3 |-> icp.scale.den * turned[a] + icp.scale.num * view.t_ext[a]]

\* The rows of glb_points that pass the filters of one detection, in the terms
\* of find_glb_points_in_detection_with_icp: at the label's height, more than
\* 0.01 in front of the camera, projected onto the mask inside the frame or,
\* without a mask, into the box inset by 15 percent, and with a depth within
\* depth_tolerance (percent) of expected_depth when there is one.
PointsInside(detection, glb_points, view, icp, depth_tolerance, floor_y) ==
    LET x1 == SetMax({0, detection.bbox[1]})
        y1 == SetMax({0, detection.bbox[2]})
        x2 == SetMin({view.W, detection.bbox[3]})
        y2 == SetMin({view.H, detection.bbox[4]})
        w == x2 - x1
        h == y2 - y1
        expected_depth == ExpectedDepth(view, x1, y1, x2, y2)
        inside(g) ==
            LET c == CamPoint(g.xyz, view, icp)
                z == c[3]
                \* (u - cx) * z and (v - cy) * z
                un == c[1] * view.fx
                vn == c[2] * view.fy
                valid_z == ~IsNaN(icp.scale) /\ 5 * z > icp.scale.num
                in_bounds == /\ un + view.cx * z >= 0 /\ un + view.cx * z < view.W * z
                             /\ vn + view.cy * z >= 0 /\ vn + view.cy * z < view.H * z
                in_mask == detection.mask[<<(vn \div z) + view.cy, (un \div z) + view.cx>>] > 0
                in_box == /\ 100 * (un + view.cx * z) >= (100 * x1 + 15 * w) * z
                          /\ 100 * (un + view.cx * z) <= (100 * x2 - 15 * w) * z
                          /\ 100 * (vn + view.cy * z) >= (100 * y1 + 15 * h) * z
                          /\ 100 * (vn + view.cy * z) <= (100 * y2 - 15 * h) * z
                depth_ok ==
                    /\ 100 * expected_depth.den * z
                          >= expected_depth.num * (100 - depth_tolerance) * icp.scale.num
                    /\ 100 * expected_depth.den * z
                          <= expected_depth.num * (100 + depth_tolerance) * icp.scale.num
            IN /\ valid_z
               /\ IF detection.has_mask THEN in_bounds /\ in_mask ELSE in_box
               /\ expected_depth.is_none \/ depth_ok
    IN IF x2 <= x1 \/ y2 <= y1 THEN <<>>
       ELSE SelectSeq(AtHeight(glb_points, floor_y, detection.label), inside)

\* np.random.choice(len(points_inside), 100, replace=False): every way to keep
\* k of the rows of the first m groups.
RECURSIVE RandomChoice(_, _, _)
RandomChoice(points, m, k) ==
    IF m = 0 THEN (IF k = 0 THEN {<<>>} ELSE {})
    ELSE UNION {{IF c = 0 THEN rest ELSE Append(rest, [points[m] EXCEPT !.count = c]) :
                    rest \in RandomChoice(points, m - 1, k - c)} :
                c \in 0 .. SetMin({points[m].count, k})}

FindGlbPointsAnyPoint(detection, glb_points, view, icp, depth_tolerance, floor_y) ==
    LET points_inside ==
            PointsInside(detection, glb_points, view, icp, depth_tolerance, floor_y)
    IN IF NumPoints(points_inside) < 1 THEN {[is_none |-> TRUE]}
       ELSE {[is_none |-> FALSE, label |-> detection.label,
              center |-> MedianPoint(points_inside),
              confidence |-> detection.confidence, points |-> points_inside,
              frame_idx |-> detection.frame_idx]}

\* find_glb_points_in_detection_with_icp: the Detection3D it may return, or
\* None.
FindGlbPoints(detection, glb_points, view, icp, depth_tolerance, floor_y) ==
    LET points_inside ==
            PointsInside(detection, glb_points, view, icp, depth_tolerance, floor_y)
        n == NumPoints(points_inside)
    IN IF n < 3 THEN {[is_none |-> TRUE]}
       ELSE {[is_none |-> FALSE, label |-> detection.label,
              center |-> MedianPoint(points_inside),
              confidence |-> detection.confidence, points |-> kept,
              frame_idx |-> detection.frame_idx] :
                kept \in IF n > 100 THEN RandomChoice(points_inside, Len(points_inside), 100)
                         ELSE {points_inside}}

\* The labels of the 2D detections in the order of their first detection, as
\* the keys of label_counts.
RECURSIVE LabelsInOrder(_, _)
LabelsInOrder(detections_2d, n) ==
    IF n = 0 THEN <<>>
    ELSE LET before == LabelsInOrder(detections_2d, n - 1)
         IN IF \E k \in 1 .. Len(before) : before[k] = detections_2d[n].label THEN before
            ELSE Append(before, detections_2d[n].label)

\* A faulty variant: every cluster of a label becomes a detection.
RECURSIVE ClusterStrategyAllClusters(_, _, _)
ClusterStrategyAllClusters(s, labels, m) ==
    IF m > Len(labels) THEN <<>>
    ELSE LET label == labels[m]
             clusters == FindFurnitureClusters(s.glb_points, s.floor_y, label, 30,
                                               s.have_sklearn)
         IN [k \in 1 .. Len(clusters) |->
                [is_none |-> FALSE, label |-> label, center |-> clusters[k],
                 confidence |-> 80,
                 points |-> <<[xyz |-> clusters[k], count |-> 1]>>, frame_idx |-> 0]]
            \o ClusterStrategyAllClusters(s, labels, m + 1)

\* The Detection3D that step 5 makes of the clusters of the labels from the
\* m-th on: of each label the first num_to_use clusters.
RECURSIVE ClusterStrategy(_, _, _)
ClusterStrategy(s, labels, m) ==
    IF m > Len(labels) THEN <<>>
    ELSE LET label == labels[m]
             count == Len(SelectSeq(s.detections_2d, LAMBDA d : d.label = label))
             clusters == FindFurnitureClusters(s.glb_points, s.floor_y, label, 30,
                                               s.have_sklearn)
             num_to_use == SetMin({Len(clusters), SetMax({1, count \div 3})})
         IN [k \in 1 .. num_to_use |->
                [is_none |-> FALSE, label |-> label, center |-> clusters[k],
                 confidence |-> 80,
                 points |-> <<[xyz |-> clusters[k], count |-> 1]>>, frame_idx |-> 0]]
            \o ClusterStrategy(s, labels, m + 1)

FallbackAlways(detections_3d) == TRUE

\* if len(detections_3d) == 0
FallbackNeeded(detections_3d) == Len(detections_3d) = 0

\* The call of step 4 as align_point_clouds_icp reads it: the lengths of the
\* two clouds, and their extents in the aligner's units, which the run's
\* clouds leave open (the depth cloud has an extent on every axis, the GLB
\* cloud has none, a small one or a large one).
AlignCalls(s) ==
    {[have_open3d |-> s.have_open3d,
      source |-> [n |-> s.depth_cloud_n, lo |-> Zeros3, hi |-> <<9, 9, 9>>],
      target |-> [n |-> NumPoints(s.glb_points), lo |-> Zeros3, hi |-> <<e, e, e>>]] :
        e \in {0, 10, 40}}

\* A faulty variant: a low fitness ends the run.
AlignStepStopsOnLowFitness ==
    /\ seg.pc = "step4"
    /\ IF ~seg.glb_exists
       THEN seg' = [seg EXCEPT !.pc = "returned"]
       ELSE IF NumPoints(seg.glb_points) > 0 /\ seg.depth_cloud_n > 100
       THEN \E a \in AlignCalls(seg) : \E reg \in IcpOutcomes :
               LET r == AlignResult(a, reg)
               IN seg' = [seg EXCEPT !.pc = IF r.fitness < 10 THEN "returned" ELSE "step5",
                                     !.floor_y = FloorY(seg.glb_points),
                                     !.icp = [R |-> r.R, t |-> r.t, scale |-> r.scale],
                                     !.aligned = TRUE, !.reg = reg, !.ran = r.ran,
                                     !.fitness = r.fitness, !.warned = r.fitness < 10]
       ELSE seg' = [seg EXCEPT !.pc = "step5", !.floor_y = FloorY(seg.glb_points)]
    /\ UNCHANGED <<merge_in, merge_out>>
    /\ UNCHANGED <<dcVars, icpVars, buildVars, jobVars>>

\* Step 4 of process (lines 1327-1373): without the GLB file the run returns;
\* else the floor is read off the cloud and, with a cloud and more than 100
\* depth points, the aligner is called and a fitness below 0.1 is warned of.
AlignStep ==
    /\ seg.pc = "step4"
    /\ IF ~seg.glb_exists
       THEN seg' = [seg EXCEPT !.pc = "returned"]
       ELSE IF NumPoints(seg.glb_points) > 0 /\ seg.depth_cloud_n > 100
       THEN \E a \in AlignCalls(seg) : \E reg \in IcpOutcomes :
               LET r == AlignResult(a, reg)
               IN seg' = [seg EXCEPT !.pc = "step5",
                                     !.floor_y = FloorY(seg.glb_points),
                                     !.icp = [R |-> r.R, t |-> r.t, scale |-> r.scale],
                                     !.aligned = TRUE, !.reg = reg, !.ran = r.ran,
                                     !.fitness = r.fitness, !.warned = r.fitness < 10]
       ELSE seg' = [seg EXCEPT !.pc = "step5", !.floor_y = FloorY(seg.glb_points)]
    /\ UNCHANGED <<merge_in, merge_out>>
    /\ UNCHANGED <<dcVars, icpVars, buildVars, jobVars>>

\* Step 5 of process, the clustering block: with a floor and a cloud, the
\* clusters of every label become detections.
FindClusters ==
    /\ seg.pc = "step5"
    /\ LET labels == LabelsInOrder(seg.detections_2d, Len(seg.detections_2d))
           usable == ~seg.floor_y.is_none /\ NumPoints(seg.glb_points) > 0
           found == IF usable THEN ClusterStrategy(seg, labels, 1) ELSE <<>>
       IN seg' = [seg EXCEPT !.pc = "clustered",
                             !.cluster_calls = IF usable THEN labels ELSE <<>>,
                             !.detections_3d = found,
                             !.n_clustered = Len(found)]
    /\ UNCHANGED <<merge_in, merge_out>>
    /\ UNCHANGED <<dcVars, icpVars, buildVars, jobVars>>

\* The fallback loop of process, one 2D detection at a time: the detection is
\* projected with depth_tolerance 0.5 and kept unless the answer is None.
ProjectDetection ==
    /\ \/ seg.pc = "clustered" /\ FallbackNeeded(seg.detections_3d)
       \/ seg.pc = "projecting"
    /\ seg.i <= Len(seg.detections_2d)
    /\ LET det == seg.detections_2d[seg.i]
       IN IF det.frame_idx \notin DOMAIN seg.views
          THEN seg' = [seg EXCEPT !.pc = "projecting", !.i = @ + 1]
          ELSE \E det_3d \in FindGlbPoints(det, seg.glb_points, seg.views[det.frame_idx],
                                           seg.icp, 50, seg.floor_y) :
                  seg' = [seg EXCEPT !.pc = "projecting", !.i = @ + 1,
                                     !.tried = Append(@, [i |-> seg.i,
                                                          found |-> ~det_3d.is_none]),
                                     !.detections_3d = IF det_3d.is_none THEN @
                                                       ELSE Append(@, det_3d)]
    /\ UNCHANGED <<merge_in, merge_out>>
    /\ UNCHANGED <<dcVars, icpVars, buildVars, jobVars>>

\* The end of step 5: process returns when nothing was located and goes on to
\* the bounds check otherwise.
Located ==
    /\ \/ seg.pc = "clustered" /\ ~FallbackNeeded(seg.detections_3d)
       \/ seg.pc = "projecting" /\ seg.i > Len(seg.detections_2d)
    /\ seg' = [seg EXCEPT !.pc = IF seg.detections_3d = <<>> THEN "returned" ELSE "located"]
    /\ UNCHANGED <<merge_in, merge_out>>
    /\ UNCHANGED <<dcVars, icpVars, buildVars, jobVars>>

\* The Detection3D the two strategies of process build: from a cluster, its
\* center as the only point and confidence 0.8; from a projection, the points
\* found inside the 2D detection, their median as center.
ClusterDetection(label, center) ==
    [label |-> label, center |-> center, confidence |-> 80,
     points |-> <<[xyz |-> center, count |-> 1]>>, frame_idx |-> 0]

ProjectedDetection(label, center, confidence) ==
    [label |-> label, center |-> center, confidence |-> confidence,
     points |-> <<[xyz |-> center, count |-> 2],
                  [xyz |-> <<center[1] + 7, center[2] + 2, center[3]>>, count |-> 1]>>,
     frame_idx |-> 0]

MergeLabels == {"chair", "sofa", "lamp"}
MergeCenters == {<<0, 0, 0>>, <<1, 0, 0>>, <<6, 8, 0>>, <<0, 12, 9>>, <<100, 0, 0>>,
                 <<200, 0, 0>>}

\* Up to three detections, all of one strategy.
MergeInputs ==
    LET clustered == {ClusterDetection(l, c) : l \in MergeLabels, c \in MergeCenters}
        projected == {ProjectedDetection(l, c, f) :
                         l \in MergeLabels, c \in MergeCenters, f \in {50, 90}}
        upto3(D) == {<<>>} \cup {<<d>> : d \in D} \cup {<<d, e>> : d \in D, e \in D}
                    \cup {<<d, e, f>> : d \in D, e \in D, f \in D}
    IN upto3(clustered) \cup upto3(projected)

\* A 6 x 4 frame seen through fx = 4, fy = 2, cx = 3, cy = 1 from the origin,
\* with a depth map of one depth (0: no depth anywhere).
SegView(dm_h, dm_w, depth) ==
    [H |-> 4, W |-> 6, has_depth |-> TRUE, dm_h |-> dm_h, dm_w |-> dm_w,
     depth_map |-> [p \in Pixels(dm_h, dm_w) |-> depth],
     fx |-> 4, fy |-> 2, cx |-> 3, cy |-> 1, R_ext |-> Eye3, t_ext |-> Zeros3]

\* The 2D detections of the one frame: the whole frame as a box, a box around
\* the middle, a mask over the left of the frame, a box of no width.
Detections2D ==
    LET left == [p \in Pixels(4, 6) |-> IF p[2] <= 3 THEN 1 ELSE 0]
        none == [p \in Pixels(4, 6) |-> 0]
    IN {[label |-> l, confidence |-> IF l = "chair" THEN 90 ELSE 50, bbox |-> r.bbox,
         has_mask |-> r.has_mask, mask |-> r.mask, frame_idx |-> 1] :
          l \in {"chair", "lamp"},
          r \in {[bbox |-> <<0, 0, 6, 4>>, has_mask |-> FALSE, mask |-> none],
                 [bbox |-> <<2, 1, 4, 3>>, has_mask |-> FALSE, mask |-> none],
                 [bbox |-> <<0, 0, 6, 4>>, has_mask |-> TRUE, mask |-> left],
                 [bbox |-> <<3, 1, 3, 3>>, has_mask |-> FALSE, mask |-> none]}}

\* Clouds: none, or three floor rows and up to two groups of rows: seen in the
\* middle of the frame, seen right of the middle, too high for a chair, behind
\* the camera, three times as deep, outside the frame; one crowd of 120
\* rows in the frame; two heaps of 30 rows further apart than DBSCAN's eps;
\* and one heap too high for a chair.
GlbClouds ==
    LET groups == {[xyz |-> p, count |-> c] :
                      p \in {<<0, 10, 20>>, <<6, 10, 20>>}, c \in {1, 2, 30}}
                  \cup {[xyz |-> p, count |-> 2] :
                           p \in {<<0, 30, 60>>, <<0, 10, -5>>, <<0, 10, 60>>, <<40, 10, 20>>}}
        floor == [xyz |-> <<0, 0, 40>>, count |-> 3]
        crowd == <<floor, [xyz |-> <<0, 10, 20>>, count |-> 60],
                   [xyz |-> <<6, 10, 20>>, count |-> 60]>>
        wide_floor == [xyz |-> <<0, 0, 40>>, count |-> 5]
        heaps == <<wide_floor, [xyz |-> <<0, 10, 20>>, count |-> 30],
                   [xyz |-> <<40, 10, 20>>, count |-> 30]>>
        high_heap == <<wide_floor, [xyz |-> <<0, 30, 20>>, count |-> 30]>>
    IN {<<>>, <<floor>>, crowd, heaps, high_heap} \cup {<<floor, g>> : g \in groups}
       \cup {<<floor, g, e>> : g \in groups, e \in groups}

\* The alignments of step 4: none, one with a scale of 2 and a quarter turn
\* about z, one whose scale is NaN.
SegAlignments ==
    {[R |-> Eye3, t |-> Zeros3, scale |-> Frac(1, 1)],
     [R |-> Rz90, t |-> <<0, 0, 0>>, scale |-> Frac(2, 1)],
     [R |-> Eye3, t |-> Zeros3, scale |-> NaN]}

\* process at step 5.
SegInputs ==
    LET one == {<<d>> : d \in Detections2D}
        two == {<<d, e>> : d \in Detections2D,
                           e \in {x \in Detections2D : x.bbox = <<0, 0, 6, 4>> /\ ~x.has_mask}}
        six == {[k \in 1 .. 6 |-> d] : d \in {x \in Detections2D :
                                                 x.label = "chair" /\ x.has_mask}}
    IN {[pc |-> "step5", detections_2d |-> ds, glb_points |-> cloud,
         floor_y |-> FloorY(cloud), views |-> <<v>>, icp |-> a, have_sklearn |-> sk,
         detections_3d |-> <<>>, n_clustered |-> 0, cluster_calls |-> <<>>,
         i |-> 1, tried |-> <<>>] :
          ds \in one \cup two \cup six, cloud \in GlbClouds,
          v \in {SegView(4, 6, 20), SegView(4, 6, 60), SegView(2, 3, 0)},
          a \in SegAlignments, sk \in BOOLEAN}

\* process at step 4: the GLB file is there or not, the depth cloud has 100
\* or 101 points, the GLB cloud none, 3, 5, 33, 65 or 123.
PipeInputs ==
    LET floor == [xyz |-> <<0, 0, 40>>, count |-> 3]
        wide_floor == [xyz |-> <<0, 0, 40>>, count |-> 5]
        clouds == {<<>>, <<floor>>, <<floor, [xyz |-> <<0, 10, 20>>, count |-> 2]>>,
                   <<floor, [xyz |-> <<0, 10, 20>>, count |-> 30]>>,
                   <<wide_floor, [xyz |-> <<0, 10, 20>>, count |-> 30],
                     [xyz |-> <<40, 10, 20>>, count |-> 30]>>,
                   <<floor, [xyz |-> <<0, 10, 20>>, count |-> 60],
                     [xyz |-> <<6, 10, 20>>, count |-> 60]>>}
        lists == {<<d>> : d \in Detections2D}
                 \cup {[k \in 1 .. 6 |-> d] : d \in {x \in Detections2D :
                                                        x.label = "chair" /\ x.has_mask}}
    IN {[pc |-> "step4", glb_exists |-> ge, depth_cloud_n |-> dn, have_open3d |-> o3,
         detections_2d |-> ds, glb_points |-> cloud, floor_y |-> NoFloor,
         views |-> <<v>>, icp |-> [R |-> Eye3, t |-> Zeros3, scale |-> Frac(1, 1)],
         have_sklearn |-> sk, detections_3d |-> <<>>, n_clustered |-> 0,
         cluster_calls |-> <<>>, i |-> 1, tried |-> <<>>,
         aligned |-> FALSE, reg |-> [R |-> Eye3, t |-> Zeros3, fitness |-> 0],
         ran |-> <<>>, fitness |-> 0, warned |-> FALSE] :
          ge \in BOOLEAN, dn \in {100, 101}, o3 \in BOOLEAN, ds \in lists,
          cloud \in clouds, v \in {SegView(4, 6, 20), SegView(2, 3, 0)}, sk \in BOOLEAN}

NoSeg == [pc |-> "idle"]

SegIdle ==
    /\ merge_in = <<>>
    /\ merge_out = NotReturned
    /\ seg = NoSeg

DCIdle ==
    /\ dc_in = [h |-> 1, w |-> 1, dtype |-> "float32", depth |-> [p \in Pixels(1, 1) |-> 0],
                has_conf |-> FALSE, conf |-> NoConf(1, 1), thr |-> 3]
    /\ completer = [extrapolate |-> TRUE, blur_type |-> "bilateral"]
    /\ dc_out = NotReturned
    /\ dc_again = NotReturned

IcpIdle ==
    /\ icp_in = [have_open3d |-> TRUE,
                 source |-> [n |-> 0, lo |-> Zeros3, hi |-> Zeros3],
                 target |-> [n |-> 0, lo |-> Zeros3, hi |-> Zeros3]]
    /\ icp_out = NotReturned

BuildIdle ==
    /\ build_in = NoPrediction
    /\ build_out = NotReturned

JobIdle ==
    /\ settings = DefaultSettings
    /\ jobs = [j \in OneJob |-> NewJob]
    /\ fs = [j \in OneJob |-> UploadedDir]
    /\ task = [j \in OneJob |-> NewTask(IdleWorld)]
    /\ progress_log = [j \in OneJob |-> <<>>]

(* ---- DepthCompletion.complete on its own ---- *)
DCInit ==
    /\ dc_in \in DCInputs
    /\ completer \in Completers
    /\ dc_out = NotReturned
    /\ dc_again = NotReturned
    /\ IcpIdle /\ BuildIdle /\ JobIdle /\ SegIdle

\* complete(depth_map, confidence_map, conf_threshold)
Complete ==
    /\ ~dc_out.returned
    /\ \E r \in CompleteResults(dc_in, completer) :
          dc_out' = [returned |-> TRUE, dtype |-> r.dtype, map |-> r.map]
    /\ UNCHANGED <<dc_in, completer, dc_again>>
    /\ UNCHANGED <<icpVars, buildVars, segVars, jobVars>>

\* complete(result, confidence_map, conf_threshold): a second call, on the
\* map the first one returned
CompleteAgain ==
    /\ dc_out.returned
    /\ ~dc_again.returned
    /\ \E r \in CompleteResults([dc_in EXCEPT !.depth = dc_out.map, !.dtype = dc_out.dtype],
                                completer) :
          dc_again' = [returned |-> TRUE, dtype |-> r.dtype, map |-> r.map]
    /\ UNCHANGED <<dc_in, completer, dc_out>>
    /\ UNCHANGED <<icpVars, buildVars, segVars, jobVars>>

DCNext == Complete \/ CompleteAgain

SpecDC == DCInit /\ [][DCNext]_vars

(* ---- align_point_clouds_icp on its own ---- *)
IcpInit ==
    /\ icp_in \in IcpInputs
    /\ icp_out = NotReturned
    /\ DCIdle /\ BuildIdle /\ JobIdle /\ SegIdle

\* align_point_clouds_icp(source, target)
Align ==
    /\ ~icp_out.returned
    /\ \E reg \in IcpOutcomes :
          LET r == AlignResult(icp_in, reg)
          IN icp_out' = [returned |-> TRUE, R |-> r.R, t |-> r.t, fitness |-> r.fitness,
                         scale |-> r.scale, ran |-> r.ran]
    /\ UNCHANGED icp_in
    /\ UNCHANGED <<dcVars, buildVars, segVars, jobVars>>

IcpNext == Align

SpecICP == IcpInit /\ [][IcpNext]_vars

(* ---- align_point_clouds_icp on a cloud and its scaled copy ---- *)
ScaleInit ==
    /\ icp_in \in ScaledPairs
    /\ icp_out = NotReturned
    /\ DCIdle /\ BuildIdle /\ JobIdle /\ SegIdle

SpecScale == ScaleInit /\ [][IcpNext]_vars

(* ---- _build_point_cloud_from_prediction on its own ---- *)
BuildInit ==
    /\ build_in \in BuildInputs
    /\ build_out = NotReturned
    /\ DCIdle /\ IcpIdle /\ JobIdle /\ SegIdle

\* _build_point_cloud_from_prediction(prediction)
Build ==
    /\ ~build_out.returned
    /\ LET r == BuildPointCloud(build_in)
       IN build_out' = [returned |-> TRUE, ok |-> r.ok, error |-> r.error, pcd |-> r.pcd]
    /\ UNCHANGED build_in
    /\ UNCHANGED <<dcVars, icpVars, segVars, jobVars>>

BuildNext == Build

SpecBuild == BuildInit /\ [][BuildNext]_vars

(* ---- The job pipeline: every job uploaded, under any settings and world ---- *)
Init ==
    /\ DCIdle /\ IcpIdle /\ BuildIdle /\ SegIdle
    /\ settings \in SettingsSet
    /\ jobs = [j \in OneJob |-> NewJob]
    /\ fs = [j \in OneJob |-> UploadedDir]
    /\ task \in [OneJob -> {NewTask(w) : w \in Worlds}]
    /\ progress_log = [j \in OneJob |-> <<>>]

Next ==
    \E j \in JobIds :
        \/ StartProcessing(j)
        \/ ExtractFrames(j)
        \/ EstimateBegin(j)
        \/ Inference(j)
        \/ DepthCompletionStep(j)
        \/ ExportBegin(j)
        \/ LodBuild(j)
        \/ LodExportTier(j)
        \/ LodFinishTier(j)
        \/ SingleExport(j)
        \/ TsdfFallback(j)
        \/ Finish(j)

Spec == Init /\ [][Next]_vars

(* ---- _export_multi_lod_glb on its own, from its first await ---- *)
\* A run with depth completion off that has reached the build of the cloud.
LodInit ==
    /\ DCIdle /\ IcpIdle /\ BuildIdle /\ SegIdle
    /\ settings \in {st \in SettingsSet : st.enable_lod /\ ~st.enable_depth_completion
                                          /\ ~st.auto_cleanup_after_completion}
    /\ jobs = [j \in OneJob |-> [NewJob EXCEPT !.status = "processing", !.progress = 82]]
    /\ fs = [j \in OneJob |-> UploadedDir]
    /\ task \in [OneJob ->
          {[NewTask([frames |-> 1, model_loads |-> TRUE, raises |-> FALSE, native |-> FALSE,
                     prediction |-> pr])
               EXCEPT !.pc = "lod_build", !.prediction = pr, !.lod_assets = EmptyLods] :
             pr \in LodPredictions}]
    /\ progress_log = [j \in OneJob |-> <<5, 10, 20, 80, 82>>]

LodNext ==
    \E j \in JobIds :
        \/ LodBuild(j)
        \/ LodExportTier(j)
        \/ LodFinishTier(j)

SpecLOD == LodInit /\ [][LodNext]_vars

(* ---- _export_multi_lod_glb under tier lists of any length ---- *)
TiersInit ==
    /\ DCIdle /\ IcpIdle /\ BuildIdle /\ SegIdle
    /\ settings \in {[DefaultSettings EXCEPT !.enable_draco = dr, !.lod_configs = tl,
                                             !.enable_depth_completion = FALSE] :
                        dr \in BOOLEAN, tl \in TierLists}
    /\ jobs = [j \in OneJob |-> [NewJob EXCEPT !.status = "processing", !.progress = 82]]
    /\ fs = [j \in OneJob |-> UploadedDir]
    /\ task \in [OneJob ->
          {[NewTask([frames |-> 1, model_loads |-> TRUE, raises |-> FALSE, native |-> FALSE,
                     prediction |-> pr])
               EXCEPT !.pc = "lod_build", !.prediction = pr, !.lod_assets = EmptyLods] :
             pr \in {OneView(2, 2, Map22(1, 1, 3, 1)), OneView(2, 2, Map22(1, 0, 0, 3)),
                     OneView(2, 2, Map22(0, 0, 0, 0))}}]
    /\ progress_log = [j \in OneJob |-> <<5, 10, 20, 80, 82>>]

SpecTiers == TiersInit /\ [][LodNext]_vars

(* ---- Two jobs running side by side ---- *)
\* Two uploaded jobs under the LOD export with the default-ordered budgets;
\* the oracle writes its own scene.glb for a job or does not.
PairInit ==
    /\ DCIdle /\ IcpIdle /\ BuildIdle /\ SegIdle
    /\ settings \in {st \in SettingsSet :
                        /\ st.enable_lod /\ ~st.enable_depth_completion
                        /\ st.lod_configs = DefaultSettings.lod_configs}
    /\ jobs = [j \in TwoJobs |-> NewJob]
    /\ fs = [j \in TwoJobs |-> UploadedDir]
    /\ task \in [TwoJobs ->
          {NewTask([frames |-> 1, model_loads |-> TRUE, raises |-> FALSE, native |-> n,
                    prediction |-> OneView(2, 2, Map22(1, 1, 3, 1))]) : n \in BOOLEAN}]
    /\ progress_log = [j \in TwoJobs |-> <<>>]

SpecPair == PairInit /\ [][Next]_vars

(* ---- merge_3d_detections on its own ---- *)
MergeInit ==
    /\ merge_in \in MergeInputs
    /\ merge_out = NotReturned
    /\ seg = NoSeg
    /\ DCIdle /\ IcpIdle /\ BuildIdle /\ JobIdle

\* merge_3d_detections(detections)
Merge ==
    /\ ~merge_out.returned
    /\ merge_out' = [returned |-> TRUE, objects |-> Merge3dDetections(merge_in)]
    /\ UNCHANGED <<merge_in, seg>>
    /\ UNCHANGED <<dcVars, icpVars, buildVars, jobVars>>

MergeNext == Merge

SpecMerge == MergeInit /\ [][MergeNext]_vars

(* ---- 2dseg.process from its step 5 ---- *)
SegInit ==
    /\ seg \in SegInputs
    /\ merge_in = <<>>
    /\ merge_out = NotReturned
    /\ DCIdle /\ IcpIdle /\ BuildIdle /\ JobIdle

SegNext == FindClusters \/ ProjectDetection \/ Located

SpecSeg == SegInit /\ [][SegNext]_vars

(* ---------------------------------------------------------------------- *)
(* Properties                                                              *)
(* ---------------------------------------------------------------------- *)

(* ---- DepthCompletion.complete (SpecDC) ---- *)

\* C1: once complete() has returned, the returned map holds, at every
\* originally valid pixel (confidence >= threshold when a confidence map is
\* given, depth > 0, finite), exactly the value the input holds there.
C1_ValidPixelsExact ==
    dc_out.returned =>
        \A p \in Pixels(dc_in.h, dc_in.w) :
            ( /\ dc_in.has_conf => dc_in.conf[p] >= dc_in.thr
              /\ dc_in.depth[p] > 0
              /\ dc_in.depth[p] # PosInf )
            => dc_out.map[p] = dc_in.depth[p]

(* ---- the job pipeline (Spec) ---- *)

\* The tier loop of job j has been entered and left.
LodLoopOver(j) ==
    /\ task[j].pc \in {"single", "tsdf", "serialize", "done"}
    /\ task[j].full_pcd # NoCloud

\* C2: when the tier loop of the multi-LOD export is over, every configured
\* tier has been attempted, whatever happened to the others, and the LOD
\* collection handed to the caller holds the asset of every tier whose file
\* was written.
C2_TierFailureIsolated ==
    \A j \in JobIds :
        LodLoopOver(j) =>
            /\ task[j].tried = {settings.lod_configs[i].name : i \in 1 .. Len(settings.lod_configs)}
            /\ ~task[j].lod_assets.is_none
            /\ \A n \in task[j].tried :
                  (Exists(fs[j], <<"scene", n>>) \/ Exists(fs[j], <<"scene_draco", n>>))
                      => task[j].lod_assets[n] # NoAsset

\* A prediction lacking one of the required fields.
MissingField(pred) ==
    pred.depth_attr # "ok" \/ ~pred.has_intrinsics \/ ~pred.has_extrinsics \/ ~pred.has_images

\* C9: a job whose oracle output lacks depth, intrinsics, extrinsics or the
\* processed images ends failed with an error message, and records no asset.
C9_MissingFieldFails ==
    \A j \in JobIds :
        ( /\ task[j].pc = "done"
          /\ task[j].prediction # NoPrediction
          /\ MissingField(task[j].prediction) )
        => /\ jobs[j].status = "failed"
           /\ jobs[j].error # ""
           /\ jobs[j].model_asset = NoAsset
           /\ jobs[j].lod_assets = NoLods

C3_NoUpsampling ==
    \A j \in JobIds : \A i \in 1 .. Len(settings.lod_configs) :
        LET cfg == settings.lod_configs[i]
            K == Len(task[j].full_pcd.points)
        IN (task[j].full_pcd # NoCloud /\ cfg.max_points >= K) =>
              /\ (task[j].pc = "lod_compress" /\ task[j].idx = i) =>
                    /\ task[j].pcd = task[j].full_pcd
                    /\ fs[j].files[<<"scene", cfg.name>>].points = K
              /\ task[j].lod_assets[cfg.name] # NoAsset =>
                    task[j].lod_assets[cfg.name].point_count = K

\* The export has returned; the full tier had room for the K >= 2 points of
\* the cloud and records K, the preview tier had not and records fewer.
C3_Witness ==
    \E j \in JobIds :
        LET K == Len(task[j].full_pcd.points)
        IN /\ task[j].pc = "single"
           /\ K >= 2
           /\ settings.lod_configs[3].max_points >= K
           /\ task[j].lod_assets.full # NoAsset
           /\ task[j].lod_assets.full.point_count = K
           /\ settings.lod_configs[1].max_points < K
           /\ task[j].lod_assets.preview # NoAsset
           /\ task[j].lod_assets.preview.point_count < K

\* C4: with budgets preview < medium < full and a cloud of more points than
\* every budget, the exported counts are ordered preview <= medium <= full.
C4_LodMonotone ==
    \A j \in JobIds :
        ( /\ task[j].pc = "single"
          /\ ~task[j].lod_assets.is_none
          /\ Len(task[j].full_pcd.points) > settings.lod_configs[3].max_points
          /\ \A n \in LodNames : task[j].lod_assets[n] # NoAsset )
        => /\ task[j].lod_assets.preview.point_count <= task[j].lod_assets.medium.point_count
           /\ task[j].lod_assets.medium.point_count <= task[j].lod_assets.full.point_count

(* ---- align_point_clouds_icp (SpecICP) ---- *)

\* C5: with fewer than 10 points in the source or in the target the call
\* returns the identity rotation, a zero translation, scale 1 and fitness 0,
\* and runs neither the scale estimation nor ICP.
C5_TooFewPoints ==
    (icp_out.returned /\ (icp_in.source.n < 10 \/ icp_in.target.n < 10)) =>
        /\ icp_out.R = Eye3
        /\ icp_out.t = Zeros3
        /\ icp_out.scale = Frac(1, 1)
        /\ icp_out.fitness = 0
        /\ icp_out.ran = <<>>

\* Open3D is there, the target has 10 points and the source has 9: the
\* call has returned.
C5_Witness ==
    /\ icp_out.returned
    /\ icp_in.have_open3d
    /\ icp_in.source.n = 9
    /\ icp_in.target.n = 10

\* C6: with at least 10 points in each cloud the scale returned is a
\* positive number within [0.5, 2.0].
C6_ScaleInRange ==
    (icp_out.returned /\ icp_in.source.n >= 10 /\ icp_in.target.n >= 10) =>
        /\ ~IsNaN(icp_out.scale)
        /\ icp_out.scale.num > 0
        /\ FracLeq(Frac(1, 2), icp_out.scale)
        /\ FracLeq(icp_out.scale, Frac(2, 1))

(* ---- _build_point_cloud_from_prediction (SpecBuild) ---- *)

\* The valid pixels of view i: depth > 0 and finite.
ValidDepthPixels(pred, i) ==
    {p \in Pixels(pred.H, pred.W) : pred.depth[i][p] > 0 /\ pred.depth[i][p] # PosInf}

\* No view of the prediction has a valid pixel.
NoValidPixel(pred) == \A i \in 1 .. pred.N : ValidDepthPixels(pred, i) = {}

\* C7: the build raises exactly when the prediction lacks depth, intrinsics
\* or extrinsics or no view has a valid pixel, and returns a non-empty cloud
\* otherwise.
C7_FailsIff ==
    build_out.returned =>
        /\ ~build_out.ok <=>
              \/ build_in.depth_attr # "ok" \/ ~build_in.has_intrinsics \/ ~build_in.has_extrinsics
              \/ NoValidPixel(build_in)
        /\ build_out.ok => Len(build_out.pcd.points) > 0
        /\ ~build_out.ok => build_out.pcd = NoCloud

\* C7, amended: the build raises exactly when the prediction lacks depth,
\* intrinsics, extrinsics or the processed images, when the extrinsic of a
\* view is neither 3 x 4 nor 4 x 4, or when no view has a valid pixel; it
\* returns a non-empty cloud otherwise.
C7_FailsIffAmended ==
    build_out.returned =>
        /\ ~build_out.ok <=>
              \/ MissingField(build_in)
              \/ \E i \in 1 .. build_in.N :
                    ~(Len(build_in.extrinsics[i]) \in {3, 4}
                        /\ \A r \in 1 .. Len(build_in.extrinsics[i]) :
                              Len(build_in.extrinsics[i][r]) = 4)
              \/ NoValidPixel(build_in)
        /\ build_out.ok => Len(build_out.pcd.points) > 0
        /\ ~build_out.ok => build_out.error # "" /\ build_out.pcd = NoCloud

\* The build has raised on a prediction that has depth, intrinsics,
\* extrinsics and a valid pixel, and lacks only the processed images.
C7_Witness ==
    /\ build_out.returned
    /\ ~build_out.ok
    /\ build_in.depth_attr = "ok" /\ build_in.has_intrinsics /\ build_in.has_extrinsics
    /\ ~build_in.has_images
    /\ ~NoValidPixel(build_in)

RECURSIVE ValidCount(_, _)
ValidCount(pred, n) ==
    IF n = 0 THEN 0 ELSE ValidCount(pred, n - 1) + Cardinality(ValidDepthPixels(pred, n))

\* C8: the cloud built holds one point and one colour per valid pixel of all
\* views together; the point of pixel (u, v) of view i, with Y and Z negated
\* back and mapped by the view's world-to-camera extrinsic (3 x 4 or 4 x 4),
\* is the camera point (x, y, z) with z the depth, x fx = (u - cx) z and
\* y fy = (v - cy) z, and its colour is the pixel's; a single 2 x 2 view of
\* depth 1 with identity intrinsics and extrinsics gives the 4 points
\* (u, -v, -1).
C8_OnePointPerValidPixel ==
    (build_out.returned /\ build_out.ok) =>
        LET pred == build_in
            pts == build_out.pcd.points
            cols == build_out.pcd.colors
        IN /\ Len(pts) = ValidCount(pred, pred.N)
           /\ Len(cols) = Len(pts)
           /\ \A i \in 1 .. pred.N : \A p \in ValidDepthPixels(pred, i) :
                 \E m \in 1 .. Len(pts) :
                    LET K == pred.intrinsics[i]
                        ext == pred.extrinsics[i]
                        q == <<pts[m][1], -pts[m][2], -pts[m][3], 1>>
                        cam == [r \in 1 .. 3 |-> Dot4(ext[r], q)]
                        z == pred.depth[i][p]
                    IN /\ cam[3] = z
                       /\ cam[1] * K[1][1] = (p[2] - K[1][3]) * z
                       /\ cam[2] * K[2][2] = (p[1] - K[2][3]) * z
                       /\ cols[m] = pred.processed_images[i][p]
           /\ pred = UnitView22 =>
                 pts = <<<<0, 0, -1>>, <<1, 0, -1>>, <<0, -1, -1>>, <<1, -1, -1>>>>

\* A cloud built from two views, the first without a valid pixel and the
\* second, under a 4 x 4 extrinsic, with two.
C8_Witness ==
    /\ build_out.returned /\ build_out.ok
    /\ build_in.N = 2
    /\ ValidDepthPixels(build_in, 1) = {}
    /\ Cardinality(ValidDepthPixels(build_in, 2)) = 2
    /\ Len(build_in.extrinsics[2]) = 4
    /\ Len(build_out.pcd.points) = 2

(* ---- assets of the LOD export (SpecLOD) ---- *)

\* C11: every asset of the LOD collection names a file that exists in the
\* job directory, records as point_count the number of points of the cloud
\* exported for its tier, which is what the file holds, and records as
\* file_size_bytes the size of that file.
C11_AssetsObserved ==
    \A j \in JobIds : \A i \in 1 .. Len(settings.lod_configs) :
        LET cfg == settings.lod_configs[i]
            asset == task[j].lod_assets[cfg.name]
            exported == TierCloud(task[j].full_pcd, cfg.max_points)
        IN asset # NoAsset =>
              /\ asset.lod_level = cfg.name
              /\ Exists(fs[j], asset.filename)
              /\ asset.point_count = Len(exported.points)
              /\ asset.point_count = fs[j].files[asset.filename].points
              /\ asset.file_size_bytes = FileSize(fs[j].files[asset.filename])

\* The collection has been returned; the preview asset records a count that
\* is not the tier's budget, and its file is the compressed one.
C11_Witness ==
    \E j \in JobIds :
        /\ task[j].pc = "single"
        /\ task[j].lod_assets.preview # NoAsset
        /\ task[j].lod_assets.preview.point_count # settings.lod_configs[1].max_points
        /\ task[j].lod_assets.preview.filename = <<"scene_draco", "preview">>
        /\ task[j].lod_assets.full # NoAsset

(* ---- degenerate and fully valid inputs of complete (SpecDC) ---- *)

\* The depths of the valid pixels of the input.
ValidDepths == {dc_in.depth[p] : p \in {q \in Pixels(dc_in.h, dc_in.w) : ValidMask(dc_in)[q]}}

\* C14: a call of complete() on a map without a valid pixel, or whose valid
\* depths are all equal, returns a map of the input's type that equals the
\* input at every pixel, and leaves the input as it was.
C14_DegenerateInput ==
    [][ ( /\ ~dc_out.returned
          /\ dc_out'.returned
          /\ \A x \in ValidDepths : \A y \in ValidDepths : x = y )
        => /\ dc_out'.map = dc_in.depth
           /\ dc_out'.dtype = dc_in.dtype
           /\ dc_in' = dc_in
      ]_vars

\* The call has returned on a map of two pixels without a valid one, one
\* of them non-finite.
C14_Witness ==
    /\ dc_out.returned
    /\ ValidDepths = {}
    /\ \E p \in Pixels(dc_in.h, dc_in.w) : dc_in.depth[p] = PosInf
    /\ dc_in.h * dc_in.w >= 2

\* C15: on a map whose pixels are all valid, complete() returns the input,
\* and a second call on the result returns it again.
C15_Idempotent ==
    ( /\ dc_again.returned
      /\ \A p \in Pixels(dc_in.h, dc_in.w) : ValidMask(dc_in)[p] )
    => /\ dc_out.map = dc_in.depth
       /\ dc_again.map = dc_out.map

(* ---- the TSDF mesh fallback (Spec) ---- *)

\* C16: a call of the TSDF export whose extracted mesh has no vertex or no
\* triangle raises right after the emptiness check: neither cleanup nor
\* decimation nor the write has run, room.glb does not exist and no asset
\* is recorded for it.
C16_EmptyMeshFails ==
    \A j \in JobIds :
        ( /\ task[j].tsdf.called
          /\ "extract" \in {task[j].tsdf.ran[i] : i \in 1 .. Len(task[j].tsdf.ran)}
          /\ (task[j].tsdf.mesh.vertices = 0 \/ task[j].tsdf.mesh.triangles = 0) )
        => /\ ~task[j].tsdf.ok
           /\ task[j].tsdf.error # ""
           /\ task[j].tsdf.ran = <<"integrate", "extract", "check">>
           /\ ~Exists(fs[j], <<"room", "">>)
           /\ task[j].model_asset = NoAsset

\* The fallback has extracted a mesh with vertices and no triangle.
C16_Witness ==
    \E j \in JobIds :
        /\ task[j].tsdf.called
        /\ task[j].tsdf.mesh.vertices > 0
        /\ task[j].tsdf.mesh.triangles = 0
        /\ task[j].tsdf.ran = <<"integrate", "extract", "check">>

(* ---- release of the accelerator cache (Spec) ---- *)

\* The run of job j has reached the inference (progress 20 is emitted right
\* before the try block of estimate_depth is entered).
ReachedInference(j) == \E i \in 1 .. Len(progress_log[j]) : progress_log[j][i] = 20

\* C20: a run that has reached the inference has released the accelerator
\* cache exactly once when it is over, whether the job completed or failed,
\* and has not released it while a stage of the pipeline is still to run.
C20_CacheReleased ==
    \A j \in JobIds :
        ReachedInference(j) =>
            /\ task[j].pc = "done" => task[j].released = 1
            /\ task[j].pc # "done" => task[j].released = 0

\* A run whose inference raised is over, the job failed, the cache released.
C20_Witness ==
    \E j \in JobIds :
        /\ ReachedInference(j)
        /\ task[j].pc = "done"
        /\ jobs[j].status = "failed"
        /\ task[j].world.raises
        /\ task[j].released = 1

(* ---- two jobs side by side (SpecPair) ---- *)

\* C19: a step of the pipeline of one job leaves the directory of every
\* other job as it was: no file of it is created, replaced or removed, and
\* the directory itself is neither created nor removed.
C19_OwnDirectoryOnly ==
    [][ \A j \in JobIds : \A k \in JobIds :
            (k # j /\ task'[j] # task[j]) => fs'[k] = fs[k] ]_vars

\* Both jobs are inside the export at the same time, each with a tier file
\* in its own directory, one of them compressed.
C19_Witness ==
    /\ JobIds = TwoJobs
    /\ \A j \in JobIds : task[j].pc \in {"lod_tier", "lod_compress"}
    /\ Exists(fs["j1"], <<"scene_draco", "preview">>)
    /\ Exists(fs["j2"], <<"scene", "preview">>)

\* The squared distance of the centers of two detections.
CenterDist2(d, e) ==
    LET v == Vec3Sub(d.center, e.center) IN v[1] * v[1] + v[2] * v[2] + v[3] * v[3]

\* The objects merge returned for one label.
ObjectsOf(label) == SelectSeq(merge_out.objects, LAMBDA o : o.label = label)

\* C12: when exactly two of the merged detections carry a label, merge
\* returns one Object3D of that label if their centers are closer than the
\* derived threshold max(0.5, 0.08 * scene size) and two if they are farther
\* apart than it; centers 0.05 apart always give one object, and centers 5
\* apart give two in a scene of at most 10 units.
C12_MergeByThreshold ==
    merge_out.returned =>
        \A label \in MergeLabels :
            LET dets == ByLabel(merge_in, label)
                thr == DistanceThreshold(merge_in)
                dist2 == CenterDist2(dets[1], dets[2])
            IN Len(dets) = 2 =>
                  /\ dist2 * thr.den * thr.den < thr.num * thr.num
                        => Len(ObjectsOf(label)) = 1
                  /\ dist2 * thr.den * thr.den > thr.num * thr.num
                        => Len(ObjectsOf(label)) = 2
                  /\ dist2 = 1 => Len(ObjectsOf(label)) = 1
                  /\ (dist2 = 100 * 100 /\ SceneSize(merge_in) <= 200)
                        => Len(ObjectsOf(label)) = 2

\* Two chairs 0.75 apart in a scene of 10 units, where the threshold is 0.8:
\* they are one object, next to the sofa that spans the scene.
C12_Witness ==
    /\ merge_out.returned
    /\ Len(merge_in) = 3
    /\ Len(ByLabel(merge_in, "chair")) = 2
    /\ CenterDist2(ByLabel(merge_in, "chair")[1], ByLabel(merge_in, "chair")[2]) = 225
    /\ DistanceThreshold(merge_in) = Frac(400, 25)
    /\ Len(ObjectsOf("chair")) = 1
    /\ Len(ObjectsOf("sofa")) = 1

\* a = b for two fractions.
FracEq(a, b) == a.num * b.den = b.num * a.den

\* C13: each Object3D merge returns for a cluster of detections has as center
\* the per-axis median of all the points of the cluster's detections, as
\* confidence the largest confidence among them, and as color the palette
\* entry of its label, gray [0.5, 0.5, 0.5] for a label the palette lacks.
C13_ObjectFields ==
    merge_out.returned =>
        \A label \in MergeLabels :
            LET dets == ByLabel(merge_in, label)
                clusters == ClusterDetections(dets, DistanceThreshold(merge_in), Len(dets))
                objs == ObjectsOf(label)
            IN /\ Len(objs) = Len(clusters)
               /\ \A k \in 1 .. Len(clusters) :
                     LET cluster == clusters[k]
                         pts == AllPoints(cluster, Len(cluster))
                     IN /\ \A a \in 1 .. 3 :
                              FracEq(objs[k].center[a], MedianPoint(pts)[a])
                        /\ \E i \in 1 .. Len(cluster) :
                              objs[k].confidence = cluster[i].confidence
                        /\ \A i \in 1 .. Len(cluster) :
                              cluster[i].confidence <= objs[k].confidence
                        /\ objs[k].color = CASE label = "chair" -> <<100, 20, 20>>
                                             [] label = "sofa" -> <<20, 80, 20>>
                                             [] OTHER -> <<50, 50, 50>>

\* A lamp seen twice with confidences 0.5 and 0.9, 0.05 apart: one gray object
\* of confidence 0.9 whose center, the median of the six points, is not the
\* mean of the two centers.
C13_Witness ==
    /\ merge_out.returned
    /\ Len(merge_in) = 2
    /\ merge_in[1] = ProjectedDetection("lamp", <<0, 0, 0>>, 50)
    /\ merge_in[2] = ProjectedDetection("lamp", <<1, 0, 0>>, 90)
    /\ Len(merge_out.objects) = 1
    /\ merge_out.objects[1].confidence = 90
    /\ merge_out.objects[1].color = <<50, 50, 50>>
    /\ FracEq(merge_out.objects[1].center[1], Frac(1, 1))
    /\ ~FracEq(merge_out.objects[1].center[1], Frac(1, 2))

\* C17: no projection is computed before the clustering block of step 5 has
\* run, and none at all in a run whose clustering produced a Detection3D: the
\* detections of such a run are the ones of its clusters and nothing else.
C17_ClusteringFirst ==
    /\ seg.tried # <<>> => (seg.pc # "step5" /\ seg.n_clustered = 0)
    /\ seg.pc = "step5" => (seg.detections_3d = <<>> /\ seg.i = 1)
    /\ seg.n_clustered > 0 =>
          /\ seg.i = 1
          /\ Len(seg.detections_3d) = seg.n_clustered
          /\ \A k \in 1 .. Len(seg.detections_3d) :
                seg.detections_3d[k].points
                    = <<[xyz |-> seg.detections_3d[k].center, count |-> 1]>>

\* A run whose clustering found a chair and whose first 2D detection the
\* projection would have located as well: it ends with the one detection of
\* the cluster.
C17_Witness ==
    /\ seg.pc = "located"
    /\ seg.n_clustered = 1
    /\ seg.tried = <<>>
    /\ Len(seg.detections_3d) = 1
    /\ \E d \in FindGlbPoints(seg.detections_2d[1], seg.glb_points, seg.views[1],
                              seg.icp, 50, seg.floor_y) : ~d.is_none

\* How many rows of the cloud pass the filters of the k-th 2D detection.
Survivors(k) ==
    NumPoints(PointsInside(seg.detections_2d[k], seg.glb_points, seg.views[1],
                           seg.icp, 50, seg.floor_y))

\* C18: a projection gives a Detection3D only when at least 3 rows pass the
\* filters and None when fewer do; no run ends in an error, and after a None
\* the loop goes on: every detection before the current one has been tried,
\* and the detections kept are as many as the projections that found one.
C18_ThreeSurvivors ==
    /\ \A k \in 1 .. Len(seg.tried) :
          /\ seg.tried[k].i = k
          /\ seg.tried[k].found => Survivors(k) >= 3
          /\ Survivors(k) < 3 => ~seg.tried[k].found
    /\ seg.pc \in {"step5", "clustered", "projecting", "located", "returned"}
    /\ seg.pc = "projecting" => Len(seg.tried) = seg.i - 1
    /\ (seg.pc \in {"located", "returned"} /\ seg.n_clustered = 0)
          => Len(seg.tried) = Len(seg.detections_2d)
    /\ seg.n_clustered = 0 =>
          Len(seg.detections_3d)
              = Len(SelectSeq(seg.tried, LAMBDA t : t.found))

\* A fallback whose first detection has two rows left and gives None, and
\* whose second has three and is located.
C18_Witness ==
    /\ seg.pc = "located"
    /\ Len(seg.tried) = 2
    /\ Survivors(1) = 2 /\ ~seg.tried[1].found
    /\ Survivors(2) = 3 /\ seg.tried[2].found
    /\ Len(seg.detections_3d) = 1
    /\ seg.detections_3d[1].label = seg.detections_2d[2].label


(* ---- The job pipeline with cancellation and a failing cleanup ---- *)
ApiInit ==
    /\ DCIdle /\ IcpIdle /\ BuildIdle /\ SegIdle
    /\ settings \in {st \in SettingsSet : /\ ~st.enable_depth_completion
                                          /\ st.lod_configs = DefaultSettings.lod_configs}
    /\ jobs = [j \in OneJob |-> NewJob]
    /\ fs = [j \in OneJob |-> UploadedDir]
    /\ task \in [OneJob -> {NewTask(w) : w \in Worlds}]
    /\ progress_log = [j \in OneJob |-> <<>>]

ApiNext ==
    \/ Next
    \/ \E j \in DOMAIN task :
          \/ FinishCleanupFails(j)
          \/ CancelJob(j)
          \/ OrphanStep(j)

SpecApi == ApiInit /\ [][ApiNext]_vars

(* ---- 2dseg.process from its step 4 ---- *)
PipeInit ==
    /\ seg \in PipeInputs
    /\ merge_in = <<>>
    /\ merge_out = NotReturned
    /\ DCIdle /\ IcpIdle /\ BuildIdle /\ JobIdle

PipeNext == AlignStep \/ FindClusters \/ ProjectDetection \/ Located

SpecPipe == PipeInit /\ [][PipeNext]_vars

(* ---------------------------------------------------------------------- *)
\* C21. Every progress update emitted during a job carries a progress value
\* within 0 .. 100, whatever the configured list of LOD tiers: the value
\* written to the job record and every value handed to the callback.
C21_ProgressInRange ==
    \A j \in JobIds :
        /\ \A k \in 1 .. Len(progress_log[j]) :
              progress_log[j][k] >= 0 /\ progress_log[j][k] <= 100
        /\ jobs[j].progress = -1 \/ (jobs[j].progress >= 0 /\ jobs[j].progress <= 100)

\* The same for the lists of at most four tiers, the longest that stay in range.
C21_InRangeUpToFourTiers ==
    Len(settings.lod_configs) <= 4 => C21_ProgressInRange

(* ---------------------------------------------------------------------- *)
\* C28. In every run of the job pipeline, also one whose LOD export fails
\* part-way and falls back to the single export or the mesh, the progress
\* values written to the job record never decrease, and a run that completes
\* has reported 100 as its last update.
C28_LastIs100 ==
    \A j \in JobIds :
        jobs[j].status = "completed" =>
            /\ Len(progress_log[j]) > 0
            /\ progress_log[j][Len(progress_log[j])] = 100
            /\ jobs[j].progress = 100

C28_ProgressMonotone ==
    /\ \A j \in JobIds :
          \A k \in 1 .. Len(progress_log[j]) - 1 : progress_log[j][k] <= progress_log[j][k + 1]
    /\ C28_LastIs100

\* The same for the runs whose LOD export, if any, failed before its second
\* tier or gave the full tier.
C28_MonotoneWithoutLateFallback ==
    \A j \in JobIds :
        (\A k \in 1 .. Len(progress_log[j]) - 1 :
            progress_log[j][k] > 85 => progress_log[j][k + 1] # 85)
        => \A k \in 1 .. Len(progress_log[j]) - 1 : progress_log[j][k] <= progress_log[j][k + 1]

(* ---------------------------------------------------------------------- *)
\* The tier whose export has just been attempted holds more points in the
\* source cloud than its budget.
OverBudgetTier(j) ==
    /\ task[j].pc = "lod_compress"
    /\ task[j].full_pcd # NoCloud
    /\ Len(task[j].full_pcd.points) > settings.lod_configs[task[j].idx].max_points

\* C25 for the clouds whose bounding box has a volume: the exported cloud of
\* an over-budget tier is the voxel-grid down-sampling of the source.
C25_DownsampledWhenVolume ==
    \A j \in JobIds :
        (OverBudgetTier(j) /\ BBoxVolume(task[j].full_pcd.points) > 0) =>
            task[j].pcd = VoxelDownSample(task[j].full_pcd, Len(task[j].full_pcd.points),
                                          BBoxVolume(task[j].full_pcd.points),
                                          settings.lod_configs[task[j].idx].max_points).cloud

\* C25. Whenever the source cloud has more points than a tier's max_points,
\* the cloud exported for that tier is the voxel-grid down-sampling of the
\* source and never the source itself, also when the cloud's axis-aligned
\* bounding box has zero volume.
C25_AlwaysDownsampled ==
    /\ C25_DownsampledWhenVolume
    /\ \A j \in JobIds :
          (OverBudgetTier(j) /\ BBoxVolume(task[j].full_pcd.points) = 0) =>
              task[j].pcd # task[j].full_pcd

(* ---------------------------------------------------------------------- *)
\* No full-quality asset has come out of the LOD export of job j (it is
\* disabled, it raised, or it gave no full tier) and the job directory holds
\* no .glb file.
NoModelSoFar(j) ==
    /\ task[j].model_asset = NoAsset
    /\ \/ ~settings.enable_lod
       \/ task[j].lod_assets.is_none
       \/ task[j].lod_assets.full = NoAsset
    /\ \A f \in FileIds : IsGlb(f) => ~Exists(fs[JobDir(j)], f)

\* The mesh fallback is invoked only as the last resort.
C26_OnlyAsLastResort ==
    [][\A j \in JobIds : (~task[j].tsdf.called /\ task'[j].tsdf.called) => NoModelSoFar(j)]_vars

\* The mesh fallback of job j was invoked and failed.
MeshFallbackFailed(j) == task[j].tsdf.called /\ ~task[j].tsdf.ok

\* C26 as stated. The TSDF mesh fallback is invoked only if no full-quality
\* LOD asset was produced and no .glb file is found in the job directory; when
\* it is invoked and fails, the run still completes, with no model asset,
\* rather than raising.
C26_MeshFallback ==
    /\ C26_OnlyAsLastResort
    /\ [](\A j \in JobIds :
            (MeshFallbackFailed(j) /\ task[j].pc = "done") =>
                /\ jobs[j].status = "completed"
                /\ jobs[j].model_asset = NoAsset)

\* C26 amended: the failure of the fallback is not raised, the run goes on to
\* the serialization with no model asset; it completes with no model asset
\* when the prediction has a depth, and fails in the serialization otherwise.
C26_MeshFallbackAmended ==
    /\ C26_OnlyAsLastResort
    /\ [](\A j \in JobIds :
            MeshFallbackFailed(j) =>
                /\ task[j].model_asset = NoAsset
                /\ task[j].pc \in {"serialize", "done"}
                /\ task[j].pc = "done" =>
                      IF task[j].prediction.depth_attr = "ok"
                      THEN /\ jobs[j].status = "completed"
                           /\ jobs[j].has_result
                           /\ jobs[j].model_asset = NoAsset
                      ELSE /\ jobs[j].status = "failed"
                           /\ jobs[j].error = "NoneType object is not subscriptable")

\* A run whose fallback extracted an empty mesh has completed with no asset.
C26_Witness ==
    \E j \in JobIds :
        /\ MeshFallbackFailed(j)
        /\ task[j].tsdf.error = "TSDF reconstruction produced an empty mesh"
        /\ jobs[j].status = "completed"
        /\ jobs[j].model_asset = NoAsset

(* ---------------------------------------------------------------------- *)
\* The raw 2D detections of a label, the clusters the cloud holds for it, and
\* the Detection3D the run has made for it.
RawCount(label) == Len(SelectSeq(seg.detections_2d, LAMBDA d : d.label = label))
ClusterCount(label) ==
    Len(FindFurnitureClusters(seg.glb_points, seg.floor_y, label, 30, seg.have_sklearn))
MadeCount(label) == Len(SelectSeq(seg.detections_3d, LAMBDA d : d.label = label))

\* The clustering block of step 5 has just run on a cloud with a floor.
ClusteringRan == seg.pc = "clustered" /\ seg.cluster_calls # <<>>

C24_WitnessSix ==
    /\ ClusteringRan
    /\ RawCount("chair") = 6
    /\ ClusterCount("chair") = 2
    /\ MadeCount("chair") = 2

\* A label without a cluster beside one with a cluster.
C24_WitnessNone ==
    /\ ClusteringRan
    /\ RawCount("chair") > 0 /\ ClusterCount("chair") = 0 /\ MadeCount("chair") = 0
    /\ MadeCount("lamp") > 0

(* ---------------------------------------------------------------------- *)
\* The rows of the first n detections that the assignment f puts in cluster
\* k, stacked in the order of the detections.
RECURSIVE AssignedPoints(_, _, _, _)
AssignedPoints(dets, f, k, n) ==
    IF n = 0 THEN <<>>
    ELSE AssignedPoints(dets, f, k, n - 1) \o (IF f[n] = k THEN dets[n].points ELSE <<>>)

\* The labels among the merged detections.
InputLabels == {merge_in[i].label : i \in 1 .. Len(merge_in)}

\* C27. merge_3d_detections partitions its input: the detections of a label
\* can be assigned, each to exactly one object of that label, so that every
\* object has a detection and holds exactly the rows of its detections;
\* every object carries one label of the input; the objects are at least as
\* many as the labels and at most as many as the detections; an empty input
\* gives an empty output.
C27_Partition ==
    merge_out.returned =>
        /\ merge_in = <<>> => merge_out.objects = <<>>
        /\ \A k \in 1 .. Len(merge_out.objects) :
              /\ merge_out.objects[k].label \in InputLabels
              /\ merge_out.objects[k].points # <<>>
        /\ \A label \in MergeLabels :
              LET dets == ByLabel(merge_in, label)
                  objs == ObjectsOf(label)
              IN \E f \in [1 .. Len(dets) -> 1 .. Len(objs)] :
                    \A k \in 1 .. Len(objs) :
                        /\ \E i \in 1 .. Len(dets) : f[i] = k
                        /\ objs[k].points = AssignedPoints(dets, f, k, Len(dets))
        /\ Cardinality(InputLabels) <= Len(merge_out.objects)
        /\ Len(merge_out.objects) <= Len(merge_in)

\* Three lamps, the first two near each other and the third far away: two
\* objects of one label, the first of two detections.
C27_Witness ==
    /\ merge_out.returned
    /\ Len(merge_in) = 3
    /\ InputLabels = {"lamp"}
    /\ Len(merge_out.objects) = 2
    /\ merge_out.objects[1].points = merge_in[1].points \o merge_in[2].points
    /\ merge_out.objects[2].points = merge_in[3].points
    /\ merge_in[1] # merge_in[2]

(* ---------------------------------------------------------------------- *)
\* The target of the call is its source scaled by q.
TargetIsSourceTimes(q) ==
    /\ icp_in.target.lo = ScaleVec(q, icp_in.source.lo)
    /\ icp_in.target.hi = ScaleVec(q, icp_in.source.hi)
    /\ icp_in.target.n = icp_in.source.n

\* |a - q| <= q / 100 for two fractions, a possibly NaN.
WithinOnePercent(a, q) ==
    /\ ~IsNaN(a)
    /\ 100 * Abs(a.num * q.den - q.num * a.den) <= q.num * a.den

\* C22. For a source cloud of at least 10 points and the target source * s
\* with s within the clamp range [0.5, 2.0], align_point_clouds_icp returns a
\* scale within a small tolerance (here one percent) of s.
C22_ScaleRecovered ==
    \A q \in ScaleFactors :
        (icp_out.returned /\ TargetIsSourceTimes(q) /\ icp_in.source.n >= min_icp_points)
            => WithinOnePercent(icp_out.scale, q)

\* The same for the clouds that have an extent along some axis.
C22_ScaleRecoveredWithExtent ==
    \A q \in ScaleFactors :
        ( /\ icp_out.returned /\ TargetIsSourceTimes(q)
          /\ icp_in.source.n >= min_icp_points
          /\ icp_in.source.lo # icp_in.source.hi )
            => WithinOnePercent(icp_out.scale, q)

(* ---------------------------------------------------------------------- *)
\* C23. A low ICP fitness is a warning, not a failure: with 10 points or more
\* in both clouds the aligner returns the transform and the fitness of the
\* registration, whatever the fitness; a fitness below 0.1 is warned of and
\* the run goes on to the localization, and from there to the merge unless
\* nothing could be located.
C23_LowFitnessWarns ==
    seg.aligned =>
        /\ (seg.have_open3d /\ seg.depth_cloud_n >= min_icp_points
                /\ NumPoints(seg.glb_points) >= min_icp_points)
              => /\ seg.ran = <<"scale", "icp">>
                 /\ seg.icp.R = seg.reg.R /\ seg.icp.t = seg.reg.t
                 /\ seg.fitness = seg.reg.fitness
        /\ seg.warned <=> seg.fitness < 10
        /\ seg.pc \in {"step5", "clustered", "projecting", "located", "returned"}
        /\ seg.pc = "returned" =>
              (seg.detections_3d = <<>> /\ Len(seg.tried) = Len(seg.detections_2d))
        /\ (seg.pc \in {"located", "returned"} /\ seg.n_clustered = 0)
              => Len(seg.tried) = Len(seg.detections_2d)

\* A run whose registration reported a fitness of 0.05 was warned and has
\* located a detection by projection: it goes on to the merge.
C23_Witness ==
    /\ seg.aligned
    /\ seg.ran = <<"scale", "icp">>
    /\ seg.fitness = 5
    /\ seg.warned
    /\ seg.pc = "located"
    /\ seg.n_clustered = 0
    /\ Len(seg.detections_3d) > 0

(* ---------------------------------------------------------------------- *)
\* The changes of status the lifecycle allows.
AllowedTransitions ==
    {<<"uploaded", "processing">>, <<"processing", "completed">>,
     <<"processing", "failed">>, <<"failed", "processing">>}

\* The task of job j is running: started and not over.
TaskActive(j) == task[j].pc \notin {"idle", "done", "crashed"}

\* C29. A job is created uploaded; a start is accepted only for an uploaded
\* or failed job and makes it processing, and none takes effect on a
\* processing or completed job; a job has a running task only while it is
\* processing and a task is started only when none is running; the status
\* changes only uploaded -> processing, processing -> completed,
\* processing -> failed, failed -> processing.
C29_Lifecycle ==
    /\ \A j \in JobIds :
          /\ jobs[j].status \in {"uploaded", "processing", "completed", "failed"}
          /\ task[j].pc = "idle" => jobs[j].status = "uploaded"
          /\ TaskActive(j) => jobs[j].status = "processing"
          /\ jobs[j].status = "processing" => TaskActive(j)
    /\ [][\A j \in JobIds \cap DOMAIN jobs' :
            /\ jobs'[j].status # jobs[j].status
                  => <<jobs[j].status, jobs'[j].status>> \in AllowedTransitions
            /\ task'[j].pc = "start"
                  => /\ ~TaskActive(j)
                     /\ jobs[j].status \in {"uploaded", "failed"}
                     /\ jobs'[j].status = "processing"
            /\ jobs[j].status \in {"processing", "completed"}
                  => (jobs'[j].status = "processing" => jobs[j].status = "processing")]_vars

\* A job that failed was started again and is in its second run.
C29_Witness ==
    \E j \in JobIds :
        /\ jobs[j].status = "processing"
        /\ jobs[j].error # ""
        /\ task[j].pc = "inference"

\* Once a job is cancelled its record stays deleted.
C30_RecordStaysDeleted ==
    [][\A j \in DOMAIN task : j \notin JobIds => j \notin DOMAIN jobs']_vars

\* The directory of a cancelled job exists only when the mesh fallback was
\* running at the cancellation and reached its write.
C30_OnlyMeshFallbackRecreates ==
    \A j \in DOMAIN task :
        (j \notin JobIds /\ fs[JobDir(j)].exists) =>
            /\ task[j].pc = "crashed"
            /\ task[j].tsdf.called
            /\ task[j].tsdf.ran[Len(task[j].tsdf.ran)] = "write"

\* C30. Once cancel_job has returned the job has no entry in the job table
\* and no directory on disk, and both stay so under every interleaving, also
\* when a background task was still running for the job: the task ends
\* without creating the directory or the record again.
C30_CancelIsFinal ==
    /\ C30_RecordStaysDeleted
    /\ [](\A j \in DOMAIN task : j \notin JobIds => ~fs[JobDir(j)].exists)

====
